---- MODULE Spec2Model ----
(***************************************************************************)
(* Rescue-post backend: the create pipeline (validation, image intake,     *)
(* the two inserts, the Telegram notifier), the admin gate with its three  *)
(* operations, and the criticality scorer.                                 *)
(*                                                                         *)
(* Python str values whose characters the code inspects (phones, priority  *)
(* level, URLs, file names, content types) are sequences of one-character  *)
(* strings; values the code only compares or tests for truthiness (tokens, *)
(* messages) are TLA+ strings.                                             *)
(***************************************************************************)
EXTENDS Integers, Sequences, FiniteSets, TLC

VARIABLES
    settings,   \* the cached Settings object (utils/settings.py)
    posts,      \* rows of table rescue_posts
    images,     \* rows of table images
    storage,    \* objects held by the Spaces bucket
    req,        \* the create request being handled: the locals of the handler
                \* and the chat-API calls its notifier has made
    resp,       \* outcome of the last step: the HTTP response, or status 0
                \* while the create handler is still running
    ncreate     \* number of create requests received so far

vars == <<settings, posts, images, storage, req, resp, ncreate>>

-----------------------------------------------------------------------------
(* Bounds of the model *)

MaxCreates == 1     \* create requests per behaviour
MaxFiles == 2       \* files per upload batch
MaxUrls == 3        \* photo URLs handed to the notifier on its own

-----------------------------------------------------------------------------
(* Python values *)

None == "<None>"                 \* None where the value is a plain string
NoneS == <<"<None>">>            \* None where the value is a character sequence
NoneInt == -999                  \* None where the value is an int

Truthy(s) == s # None /\ s # ""
TruthyS(s) == s # NoneS /\ s # <<>>

Range(s) == {s[i] : i \in 1..Len(s)}

Digits == {"0", "1", "2", "3", "4", "5", "6", "7", "8", "9"}

UpperCase == <<"H", "I", "G", "M", "E", "D", "U", "L", "O", "W", "A", "N", "K", "C", "S", "R", "T">>
LowerCase == <<"h", "i", "g", "m", "e", "d", "u", "l", "o", "w", "a", "n", "k", "c", "s", "r", "t">>

\* str.lower(), character by character
LowerChar(c) ==
    IF \E i \in 1..Len(UpperCase) : UpperCase[i] = c
    THEN LowerCase[CHOOSE i \in 1..Len(UpperCase) : UpperCase[i] = c]
    ELSE c

Lower(s) == [i \in 1..Len(s) |-> LowerChar(s[i])]

\* str.strip(): drop leading and trailing blanks
RECURSIVE LStrip(_)
LStrip(s) == IF s # <<>> /\ Head(s) = " " THEN LStrip(Tail(s)) ELSE s

RECURSIVE RStrip(_)
RStrip(s) == IF s # <<>> /\ s[Len(s)] = " " THEN RStrip(SubSeq(s, 1, Len(s) - 1)) ELSE s

Strip(s) == RStrip(LStrip(s))

StartsWith(s, p) == Len(s) >= Len(p) /\ SubSeq(s, 1, Len(p)) = p

\* "".join(ch for ch in s if ch.isdigit())
OnlyDigits(s) == SelectSeq(s, LAMBDA ch : ch \in Digits)

DigitValue(ch) == CHOOSE d \in 0..9 : <<"0", "1", "2", "3", "4", "5", "6", "7", "8", "9">>[d + 1] = ch

\* int(s) for a string of decimal digits
RECURSIVE IntOf(_)
IntOf(s) == IF s = <<>> THEN 0 ELSE 10 * IntOf(SubSeq(s, 1, Len(s) - 1)) + DigitValue(s[Len(s)])

-----------------------------------------------------------------------------
(* schemas/rescue_posts.py: the submission validator *)

PhoneMinDigits == 7
PhoneMaxDigits == 15

\* the rule with the length of the submitted string tested in place of the
\* number of its digits
_validate_phone_raw_length(number, field_name) ==
    LET digits == OnlyDigits(number) IN
    IF Len(number) < PhoneMinDigits \/ Len(number) > PhoneMaxDigits
    THEN [raised |-> TRUE, field |-> field_name, value |-> number]
    ELSE [raised |-> FALSE, field |-> field_name, value |-> digits]

\* _validate_phone: the digit string, or InvalidDataException
_validate_phone(number, field_name) ==
    LET digits == OnlyDigits(number) IN
    IF Len(digits) < PhoneMinDigits \/ Len(digits) > PhoneMaxDigits
    THEN [raised |-> TRUE, field |-> field_name, value |-> number]
    ELSE [raised |-> FALSE, field |-> field_name, value |-> digits]

Http == <<"h", "t", "t", "p", ":", "/", "/">>
Https == <<"h", "t", "t", "p", "s", ":", "/", "/">>

\* _validate_url: the stripped URL, or InvalidDataException
_validate_url(url, field_name) ==
    LET stripped == Strip(url) IN
    IF stripped = <<>>
    THEN [raised |-> TRUE, field |-> field_name, value |-> url]
    ELSE IF ~(StartsWith(stripped, Http) \/ StartsWith(stripped, Https))
    THEN [raised |-> TRUE, field |-> field_name, value |-> url]
    ELSE [raised |-> FALSE, field |-> field_name, value |-> stripped]

PriorityHigh == <<"h", "i", "g", "h">>
PriorityMedium == <<"m", "e", "d", "i", "u", "m">>
PriorityLow == <<"l", "o", "w">>
AllowedPriority == {PriorityHigh, PriorityMedium, PriorityLow}

\* validate_priority_level: strip, lower-case, membership in the allowed set
validate_priority_level(value) ==
    LET normalized == Lower(Strip(value)) IN
    IF normalized \notin AllowedPriority
    THEN [raised |-> TRUE, field |-> "priority_level", value |-> value]
    ELSE [raised |-> FALSE, field |-> "priority_level", value |-> normalized]

\* Field(min_length=, max_length=) on a str
StrBound(v, lo, hi) ==
    IF Len(v) < lo THEN "string_too_short"
    ELSE IF Len(v) > hi THEN "string_too_long"
    ELSE "ok"

\* Field(ge=, le=) on an int
IntBound(v, lo, hi) ==
    IF v < lo THEN "greater_than_equal"
    ELSE IF v > hi THEN "less_than_equal"
    ELSE "ok"

FullNameMin == 3
FullNameMax == 150
PhoneRawMin == 7
PhoneRawMax == 20
PriorityRawMin == 3
PriorityRawMax == 20
PeopleMin == 1
PeopleMax == 10000
SafeHoursMin == 0
SafeHoursMax == 1000
LocationUrlMin == 5
LocationUrlMax == 2048

\* The fields of RescuePostCreate the model carries, in declaration order.
\* location and emergency_type are declared like full_name (length bounds
\* only) and are stood for by it.
FieldOrder ==
    <<"full_name", "phone_number", "alt_phone_number", "priority_level",
      "number_of_peoples_to_rescue", "safe_hours", "location_url">>

OkField(v) == [kind |-> "ok", value |-> v]
LineError(t) == [kind |-> "line_error", type |-> t]
Raised(r) == [kind |-> "raise", field |-> r.field]
Custom(r) == IF r.raised THEN Raised(r) ELSE OkField(r.value)

\* One field of RescuePostCreate: the declared bound first, then the
\* field_validator ("after" mode) on a value that passed the bound.
ValidateField(f, v) ==
    CASE f = "full_name" ->
           IF StrBound(v, FullNameMin, FullNameMax) # "ok"
           THEN LineError(StrBound(v, FullNameMin, FullNameMax)) ELSE OkField(v)
      [] f = "phone_number" ->
           IF StrBound(v, PhoneRawMin, PhoneRawMax) # "ok"
           THEN LineError(StrBound(v, PhoneRawMin, PhoneRawMax))
           ELSE Custom(_validate_phone(v, "phone_number"))
      [] f = "alt_phone_number" ->
           IF v = NoneS THEN OkField(v)
           ELSE IF StrBound(v, PhoneRawMin, PhoneRawMax) # "ok"
           THEN LineError(StrBound(v, PhoneRawMin, PhoneRawMax))
           ELSE Custom(_validate_phone(v, "alt_phone_number"))
      [] f = "priority_level" ->
           IF StrBound(v, PriorityRawMin, PriorityRawMax) # "ok"
           THEN LineError(StrBound(v, PriorityRawMin, PriorityRawMax))
           ELSE Custom(validate_priority_level(v))
      [] f = "number_of_peoples_to_rescue" ->
           IF v = NoneInt THEN OkField(v)
           ELSE IF IntBound(v, PeopleMin, PeopleMax) # "ok"
           THEN LineError(IntBound(v, PeopleMin, PeopleMax)) ELSE OkField(v)
      [] f = "safe_hours" ->
           IF v = NoneInt THEN OkField(v)
           ELSE IF IntBound(v, SafeHoursMin, SafeHoursMax) # "ok"
           THEN LineError(IntBound(v, SafeHoursMin, SafeHoursMax)) ELSE OkField(v)
      [] f = "location_url" ->
           IF StrBound(v, LocationUrlMin, LocationUrlMax) # "ok"
           THEN LineError(StrBound(v, LocationUrlMin, LocationUrlMax))
           ELSE Custom(_validate_url(v, "location_url"))

\* app/utils/exception_handlers.py: InvalidDataException is the application's
\* caller-input error (an AppError with a message and a details payload),
\* not a ValueError
InvalidDataExceptionIsValueError == FALSE

\* cls.model_validate: the fields in order; a bound violation is collected
\* and validation goes on, an exception raised by a field_validator that is
\* not a ValueError leaves model_validate at once.
RECURSIVE model_validate_from(_, _, _, _)
model_validate_from(i, data, errors, out) ==
    IF i > Len(FieldOrder)
    THEN IF errors = <<>>
         THEN [ok |-> TRUE, raise |-> "", errors |-> <<>>, value |-> out]
         ELSE [ok |-> FALSE, raise |-> "ValidationError", errors |-> errors, value |-> out]
    ELSE LET f == FieldOrder[i]
             r == ValidateField(f, data[f])
         IN IF r.kind = "raise" /\ ~InvalidDataExceptionIsValueError
            THEN [ok |-> FALSE, raise |-> "InvalidDataException",
                  errors |-> <<r.field>>, value |-> out]
            ELSE IF r.kind \in {"line_error", "raise"}
            THEN model_validate_from(i + 1, data, Append(errors, f), out)
            ELSE model_validate_from(i + 1, data, errors, [out EXCEPT ![f] = r.value])

\* validate_with_app_error: either way a failure reaches the caller as an
\* InvalidDataException carrying the offending fields
validate_with_app_error(data) ==
    LET r == model_validate_from(1, data, <<>>, data) IN
    [ok |-> r.ok, errors |-> r.errors, validated |-> r.value]

-----------------------------------------------------------------------------
(* services/posts_service.py: image intake *)

ImagePrefix == <<"i", "m", "a", "g", "e", "/">>
ImagePng == <<"i", "m", "a", "g", "e", "/", "p", "n", "g">>
ImageJpeg == <<"i", "m", "a", "g", "e", "/", "j", "p", "e", "g">>
TextPlain == <<"t", "e", "x", "t", "/", "p", "l", "a", "i", "n">>
ExtPng == <<".", "p", "n", "g">>
ExtJpg == <<".", "j", "p", "g">>
ExtTxt == <<".", "t", "x", "t">>

\* os.path.splitext(name)[1]: from the last dot on, unless only dots come
\* before it
splitext(name) ==
    LET dots == {i \in 1..Len(name) : name[i] = "."} IN
    IF dots = {} THEN <<>>
    ELSE LET last == CHOOSE i \in dots : \A j \in dots : j <= i IN
         IF \E j \in 1..(last - 1) : name[j] # "."
         THEN SubSeq(name, last, Len(name))
         ELSE <<>>

\* mimetypes.guess_type(name)[0], for the extensions of the sample files
guess_type(name) ==
    LET ext == Lower(splitext(name)) IN
    IF ext = ExtPng THEN ImagePng
    ELSE IF ext = ExtJpg THEN ImageJpeg
    ELSE IF ext = ExtTxt THEN TextPlain
    ELSE NoneS

\* upload.content_type or mimetypes.guess_type(upload.filename)[0]
content_type_of(upload) ==
    IF TruthyS(upload.content_type) THEN upload.content_type
    ELSE guess_type(upload.filename)

max_bytes == settings.digitalocean_max_file_size_mb * 1024 * 1024

\* The checks of one loop iteration of upload_images_to_spaces, in order:
\* "ok" or the message of the InvalidDataException raised.
check_upload(upload) ==
    IF ~TruthyS(upload.filename) THEN "Image file must have a filename"
    ELSE IF ~TruthyS(content_type_of(upload))
            \/ ~StartsWith(content_type_of(upload), ImagePrefix)
    THEN "Only image uploads are allowed"
    ELSE IF upload.size = 0 THEN "Image file is empty"
    ELSE IF upload.size > max_bytes THEN "Image file exceeds the size limit"
    ELSE "ok"

\* uuid4(): a value no stored object carries
uuid4 ==
    IF storage = {} THEN 1
    ELSE 1 + (CHOOSE u \in {o.key.uuid : o \in storage} :
                \A o \in storage : o.key.uuid <= u)

\* the object key: "<prefix>/<uuid><ext>", or "<uuid><ext>" without a prefix
object_key(upload) ==
    [prefix |-> IF Truthy(settings.digitalocean_upload_prefix)
                THEN settings.digitalocean_upload_prefix ELSE "",
     uuid |-> uuid4,
     ext |-> splitext(upload.filename)]

\* the public URL appended to cdn_urls
cdn_url(key) ==
    [host |-> settings.digitalocean_cdn_endpoint,
     path |-> "projectrakawarananew",
     key |-> key]

\* the str "" where a URL is expected
EmptyUrl == [host |-> "", path |-> "", key |-> [prefix |-> "", uuid |-> 0, ext |-> <<>>]]

TruthyUrl(url) == url # EmptyUrl

\* spaces_client.put_object(Bucket, Key, Body, ContentType, ACL="public-read")
put_object(upload, key, n) ==
    [bucket |-> settings.digitalocean_bucket,
     key |-> key,
     size |-> upload.size,
     content_type |-> content_type_of(upload),
     acl |-> "public-read",
     request |-> n]

-----------------------------------------------------------------------------
(* repositories/posts_repository.py: the statements sent to the database.  *)
(* outcome is what the database does with the statement: "ok", or          *)
(* "api_error" when the client raises APIError.                            *)

DbOutcomes == {"ok", "api_error"}

\* an INSERT may also come back with no rows: nothing was inserted
InsertOutcomes == {"ok", "api_error", "no_data"}

\* column default of rescue_posts.is_verified
IsVerifiedDefault == FALSE

\* the row the database makes of an inserted payload
new_post_row(payload, id, now) ==
    payload @@ [id |-> id, created_at |-> now, is_verified |-> IsVerifiedDefault]

\* insert_rescue_post: the inserted row, or AppError 500
insert_rescue_post(payload, id, now, outcome) ==
    LET data == IF outcome = "ok" THEN <<new_post_row(payload, id, now)>> ELSE <<>> IN
    IF outcome = "api_error"
    THEN [status |-> 500, message |-> "Failed to save rescue post", data |-> <<>>]
    ELSE IF data = <<>>
    THEN [status |-> 500, message |-> "Failed to save rescue post", data |-> <<>>]
    ELSE [status |-> 200, message |-> "", data |-> data]

\* images.post_id is a foreign key to rescue_posts.id: the database refuses
\* a row for a post that is not stored
fk_valid(images_payload) ==
    \A k \in 1..Len(images_payload) : images_payload[k].post_id \in {p.id : p \in posts}

\* insert_images: the inserted rows, or AppError 500; no statement is sent
\* for an empty payload
insert_images(images_payload, outcome) ==
    LET data == IF outcome = "ok" /\ fk_valid(images_payload)
                THEN [k \in 1..Len(images_payload) |->
                        images_payload[k] @@ [id |-> <<images_payload[k].post_id, k>>]]
                ELSE <<>>
    IN
    IF images_payload = <<>>
    THEN [status |-> 200, message |-> "", data |-> <<>>]
    ELSE IF outcome = "api_error" \/ (outcome = "ok" /\ ~fk_valid(images_payload))
    THEN [status |-> 500, message |-> "Failed to save images", data |-> <<>>]
    ELSE IF data = <<>>
    THEN [status |-> 500, message |-> "Failed to save images", data |-> <<>>]
    ELSE [status |-> 200, message |-> "", data |-> data]

\* the select with an inner join: only the posts that have an image row
select_with_images_inner ==
    {p @@ [images |-> {i \in images : i.post_id = p.id}] :
        p \in {q \in posts : \E i \in images : i.post_id = q.id}}

\* supabase.table("rescue_posts").select("*, images(*)"): every post row
\* with its image rows embedded; a post without image rows has none
select_with_images ==
    {p @@ [images |-> {i \in images : i.post_id = p.id}] : p \in posts}

\* ids of a set of rows, newest first (.order("created_at", desc=True))
RECURSIVE newest_first(_)
newest_first(rows) ==
    IF rows = {} THEN <<>>
    ELSE LET r == CHOOSE x \in rows : \A y \in rows : y.created_at <= x.created_at
         IN <<r.id>> \o newest_first(rows \ {r})

\* fetch_unverified_posts: .eq("is_verified", False), newest first
fetch_unverified_posts(outcome) ==
    IF outcome = "api_error"
    THEN [status |-> 500, message |-> "Failed to fetch rescue posts", data |-> <<>>]
    ELSE [status |-> 200, message |-> "",
          data |-> newest_first({p \in select_with_images : p.is_verified = FALSE})]


\* the UPDATE toggling the flag instead of setting it
verify_update_toggle(p) == [p EXCEPT !.is_verified = ~p.is_verified]

\* the UPDATE of verify_rescue_post: .update({"is_verified": True}).eq("id", post_id)
verify_update(p) == [p EXCEPT !.is_verified = TRUE]

\* verify_rescue_post: the table after the statement and the result
verify_rescue_post(post_id, outcome) ==
    LET matched == IF outcome = "ok" THEN {p \in posts : p.id = post_id} ELSE {}
        data == {verify_update(p) : p \in matched}
        table == (posts \ matched) \cup data
    IN
    IF outcome = "api_error"
    THEN [status |-> 500, message |-> "Failed to verify rescue post", posts |-> table]
    ELSE IF data = {}
    THEN [status |-> 404, message |-> "Rescue post not found", posts |-> table]
    ELSE [status |-> 200, message |-> "", posts |-> table]

\* what the images table keeps when a post row goes: the foreign key's
\* ON DELETE CASCADE, which the schema (not this code) provides
cascade_images(post_ids) == {i \in images : i.post_id \notin post_ids}


\* delete_rescue_post without the test of response.data
delete_rescue_post_unchecked(post_id, outcome) ==
    LET data == IF outcome = "ok" THEN {p \in posts : p.id = post_id} ELSE {}
    IN
    IF outcome = "api_error"
    THEN [status |-> 500, message |-> "Failed to delete rescue post",
          posts |-> posts \ data, images |-> cascade_images({p.id : p \in data})]
    ELSE [status |-> 200, message |-> "Post deleted",
          posts |-> posts \ data, images |-> cascade_images({p.id : p \in data})]

\* delete_rescue_post: the tables after the statement and the result
delete_rescue_post(post_id, outcome) ==
    LET data == IF outcome = "ok" THEN {p \in posts : p.id = post_id} ELSE {}
        table == posts \ data
        kept == cascade_images({p.id : p \in data})
    IN
    IF outcome = "api_error"
    THEN [status |-> 500, message |-> "Failed to delete rescue post",
          posts |-> table, images |-> kept]
    ELSE IF data = {}
    THEN [status |-> 404, message |-> "Rescue post not found",
          posts |-> table, images |-> kept]
    ELSE [status |-> 200, message |-> "Post deleted", posts |-> table, images |-> kept]

-----------------------------------------------------------------------------
(* services/posts_service.py: the admin services.  A post id is a positive *)
(* number; EmptyId is the empty string.                                    *)

EmptyId == 0

verify_post(post_id, outcome) ==
    IF post_id = EmptyId
    THEN [status |-> 400, message |-> "Post id is required", posts |-> posts]
    ELSE verify_rescue_post(post_id, outcome)

delete_post(post_id, outcome) ==
    IF post_id = EmptyId
    THEN [status |-> 400, message |-> "Post id is required",
          posts |-> posts, images |-> images]
    ELSE delete_rescue_post(post_id, outcome)

list_unverified_posts(outcome) == fetch_unverified_posts(outcome)

-----------------------------------------------------------------------------
(* utils/auth.py: the admin gate *)


\* the gate with only the comparison: an unset secret equals a missing header
require_admin_token_compare_only(x_api_token) ==
    IF x_api_token # settings.admin_token
    THEN [ok |-> FALSE, status |-> 401, message |-> "Unauthorized"]
    ELSE [ok |-> TRUE, status |-> 200, message |-> ""]

require_admin_token(x_api_token) ==
    IF ~Truthy(settings.admin_token)
    THEN [ok |-> FALSE, status |-> 500, message |-> "Admin token not configured"]
    ELSE IF ~Truthy(x_api_token) \/ x_api_token # settings.admin_token
    THEN [ok |-> FALSE, status |-> 401, message |-> "Unauthorized"]
    ELSE [ok |-> TRUE, status |-> 200, message |-> ""]

-----------------------------------------------------------------------------
(* utils/telegram.py: the notifier.  A text is the sequence of its lines.  *)

\* _format_html_message: header, status, blank line, one line per field
\* that has a value
_format_html_message(data, is_verified) ==
    LET status == IF is_verified THEN "<b>Verified</b>" ELSE "<b>Not verified</b>"
        shown == SelectSeq(data, LAMBDA d : TruthyS(d.value))
    IN <<"<b>New rescue post arrived</b>", status, "">> \o shown

\* images = [url for url in (image_urls or []) if url]
notifier_images(image_urls) == SelectSeq(image_urls, TruthyUrl)


\* the media list with the caption on every item
media_group_all_captioned(imgs, caption) ==
    [idx \in 1..Len(imgs) |->
        [type |-> "photo", media |-> imgs[idx],
         caption |-> caption, parse_mode |-> "HTML"]]

\* the media list of sendMediaGroup: the caption rides on the first item
media_group(imgs, caption) ==
    [idx \in 1..Len(imgs) |->
        IF idx = 1
        THEN [type |-> "photo", media |-> imgs[idx],
              caption |-> caption, parse_mode |-> "HTML"]
        ELSE [type |-> "photo", media |-> imgs[idx]]]

\* the first client.post of send_telegram_notification
first_request(chat_id, caption, imgs) ==
    IF imgs # <<>>
    THEN IF Len(imgs) = 1
         THEN [method |-> "sendPhoto",
               json |-> [chat_id |-> chat_id, photo |-> imgs[1],
                         caption |-> caption, parse_mode |-> "HTML"]]
         ELSE [method |-> "sendMediaGroup",
               json |-> [chat_id |-> chat_id, media |-> media_group(imgs, caption)]]
    ELSE [method |-> "sendMessage",
          json |-> [chat_id |-> chat_id, text |-> caption, parse_mode |-> "HTML",
                    disable_web_page_preview |-> TRUE]]

\* fallback_text: the caption, then "Images:" and the URLs when there are any
fallback_text(caption, imgs) ==
    IF imgs # <<>> THEN caption \o <<"", "Images:">> \o imgs ELSE caption

\* the second client.post, sent after a response with status_code >= 400
fallback_request(chat_id, caption, imgs) ==
    [method |-> "sendMessage",
     json |-> [chat_id |-> chat_id, text |-> fallback_text(caption, imgs),
               parse_mode |-> "HTML", disable_web_page_preview |-> FALSE]]

\* not settings.telegram_bot_token or not settings.telegram_channel_id
telegram_configured ==
    Truthy(settings.telegram_bot_token) /\ Truthy(settings.telegram_channel_id)


\* the test of the response with the comparison off by a class
is_failure_above_500(status_code) == status_code > 500

\* resp.status_code >= 400
is_failure(status_code) == status_code >= 400

\* What a client.post can do: answer with a status code, or raise (timeout,
\* connection error); 0 stands for the exception.
PostRaises == 0
PostResults == {PostRaises, 200, 500}

-----------------------------------------------------------------------------
(* Inputs *)

NameOk == <<"A", "n", "u">>
NameShort == <<"A", "n">>
PhoneOk == <<"0", "7", "7", "1", "2", "3", "4">>
PhoneFewDigits == <<"0", "7", "-", "1", "2", "3", "4">>
PhoneShort == <<"1", "2", "3">>
PhoneAlt == <<"+", "9", "4", " ", "1", "1", "2", "2", "3", "3">>
PriorityMixed == <<"H", "i", "g", "h">>
PriorityUnknown == <<"u", "r", "g", "e", "n", "t">>
UrlOk == <<"h", "t", "t", "p", ":", "/", "/", "m">>
UrlNoScheme == <<"m", "a", "p", "s", ".", "l", "k">>

ValidPayload ==
    [full_name |-> NameOk, phone_number |-> PhoneOk, alt_phone_number |-> PhoneAlt,
     priority_level |-> PriorityMixed, number_of_peoples_to_rescue |-> 3,
     safe_hours |-> NoneInt, location_url |-> UrlOk]

FieldSamples ==
    [full_name : {NameOk, NameShort},
     phone_number : {PhoneOk, PhoneFewDigits, PhoneShort},
     alt_phone_number : {PhoneAlt, PhoneFewDigits},
     priority_level : {PriorityMixed, PriorityUnknown},
     number_of_peoples_to_rescue : {3, 0},
     safe_hours : {NoneInt, 2000},
     location_url : {UrlOk, UrlNoScheme}]

\* submissions that differ from ValidPayload in at most MaxDeviations fields
MaxDeviations == 1
Payloads ==
    {p \in FieldSamples :
        Cardinality({f \in DOMAIN p : p[f] # ValidPayload[f]}) <= MaxDeviations}

FilePng == <<"a", ".", "p", "n", "g">>
FileTxt == <<"a", ".", "t", "x", "t">>

MaxFileSizeMb == 5

\* UploadFile objects: filename, declared content type, length of the body
Uploads ==
    {[filename |-> FilePng, content_type |-> ImagePng, size |-> MaxFileSizeMb * 1024 * 1024],
     [filename |-> FilePng, content_type |-> NoneS, size |-> MaxFileSizeMb * 1024 * 1024],
     [filename |-> <<>>, content_type |-> ImagePng, size |-> 1],
     [filename |-> FilePng, content_type |-> TextPlain, size |-> 1],
     [filename |-> FileTxt, content_type |-> NoneS, size |-> 1],
     [filename |-> FilePng, content_type |-> ImagePng, size |-> 0],
     [filename |-> FilePng, content_type |-> ImagePng, size |-> MaxFileSizeMb * 1024 * 1024 + 1]}

Tokens == {None, "", "s3cret", "guess"}

\* ids an admin can name: the ids the database can have assigned, and one more
PostIds == 1..(MaxCreates + 1)

-----------------------------------------------------------------------------
(* State *)

AdminOps == {"list_unverified", "verify", "delete"}

Idle ==
    [pc |-> "idle", n |-> 0, validated |-> <<>>, nfiles |-> 0, image_urls |-> <<>>,
     post_record |-> <<>>, image_records |-> <<>>, calls |-> <<>>, attempts |-> <<>>]

\* the outcome of a step, with what the request carried (token, form)
Outcome(op, n, status, message) ==
    [op |-> op, n |-> n, status |-> status, message |-> message,
     token |-> None, executed |-> FALSE, db |-> "", errors |-> <<>>, data |-> <<>>,
     post |-> <<>>, images |-> <<>>, calls |-> <<>>, form |-> <<>>, fetched |-> <<>>,
     attempts |-> <<>>]

\* the create handler goes on: no response yet
Running(n) == Outcome("create", n, 0, "")

\* the calls to the object store and to the database the handler has made
\* for the request, in order: what was called, and for which file
Attempt(call, file) == [call |-> call, file |-> file]

\* a step of the create handler with the calls made up to and in it
After(r, attempts) == [r EXCEPT !.attempts = attempts]

\* Settings.from_env with every variable set
FullSettings ==
    [admin_token |-> "s3cret",
     telegram_bot_token |-> "bot",
     telegram_channel_id |-> "@ops",
     digitalocean_max_file_size_mb |-> MaxFileSizeMb,
     digitalocean_upload_prefix |-> "posts_images",
     digitalocean_cdn_endpoint |-> "https://cdn",
     digitalocean_bucket |-> "bucket"]

\* the environments: all optional variables set, or one of them unset or
\* (the admin token) set to the empty string
SettingsSpace ==
    {FullSettings,
     [FullSettings EXCEPT !.admin_token = None],
     [FullSettings EXCEPT !.admin_token = ""],
     [FullSettings EXCEPT !.telegram_bot_token = None],
     [FullSettings EXCEPT !.telegram_channel_id = None]}

Init ==
    /\ settings \in SettingsSpace
    /\ posts = {}
    /\ images = {}
    /\ storage = {}
    /\ req = Idle
    /\ resp = Outcome("none", 0, 0, "")
    /\ ncreate = 0

-----------------------------------------------------------------------------
(* routes/posts.py, services/posts_service.py: POST /posts *)


\* the handler with the upload moved before the validation: the first file
\* of the batch is in storage when the validation error is raised
CreateRequest_upload_first(payload, nfiles) ==
    /\ req.pc = "idle"
    /\ ncreate < MaxCreates
    /\ ncreate' = ncreate + 1
    /\ LET n == ncreate + 1
           v == validate_with_app_error(payload)
           first == [filename |-> <<"a", ".", "p", "n", "g">>,
                     content_type |-> ImagePng, size |-> 1]
       IN IF nfiles = 0
          THEN /\ resp' = [Outcome("create", n, 400, "At least one image file is required")
                             EXCEPT !.form = payload]
               /\ req' = Idle
               /\ storage' = storage
          ELSE IF ~v.ok
          THEN /\ resp' = [Outcome("create", n, 400, "Invalid rescue post data")
                             EXCEPT !.errors = v.errors, !.form = payload]
               /\ req' = Idle
               /\ storage' = storage \cup {put_object(first, object_key(first), n)}
          ELSE /\ resp' = [Running(n) EXCEPT !.form = payload]
               /\ req' = [Idle EXCEPT !.pc = "upload", !.n = n,
                                      !.validated = v.validated, !.nfiles = nfiles]
               /\ storage' = storage
    /\ UNCHANGED <<settings, posts, images>>

\* the handler without the empty-batch check: an empty list uploads nothing
\* and goes on to the insert
CreateRequest_no_empty_check(payload, nfiles) ==
    /\ req.pc = "idle"
    /\ ncreate < MaxCreates
    /\ ncreate' = ncreate + 1
    /\ LET n == ncreate + 1
           v == validate_with_app_error(payload)
       IN IF ~v.ok
          THEN /\ resp' = [Outcome("create", n, 400, "Invalid rescue post data")
                             EXCEPT !.errors = v.errors, !.form = payload]
               /\ req' = Idle
          ELSE /\ resp' = [Running(n) EXCEPT !.form = payload]
               /\ req' = [Idle EXCEPT !.pc = IF nfiles = 0 THEN "insert_post" ELSE "upload",
                                      !.n = n, !.validated = v.validated,
                                      !.nfiles = nfiles]
    /\ UNCHANGED <<settings, posts, images, storage>>

\* create_rescue_post_with_images up to the first storage write: validation,
\* then the empty-batch check of upload_images_to_spaces
CreateRequest(payload, nfiles) ==
    /\ req.pc = "idle"
    /\ ncreate < MaxCreates
    /\ ncreate' = ncreate + 1
    /\ LET n == ncreate + 1
           v == validate_with_app_error(payload)
       IN IF ~v.ok
          THEN /\ resp' = [Outcome("create", n, 400, "Invalid rescue post data")
                             EXCEPT !.errors = v.errors, !.form = payload]
               /\ req' = Idle
          ELSE IF nfiles = 0
          THEN /\ resp' = [Outcome("create", n, 400, "At least one image file is required")
                             EXCEPT !.form = payload]
               /\ req' = Idle
          ELSE /\ resp' = [Running(n) EXCEPT !.form = payload]
               /\ req' = [Idle EXCEPT !.pc = "upload", !.n = n,
                                      !.validated = v.validated, !.nfiles = nfiles]
    /\ UNCHANGED <<settings, posts, images, storage>>

\* the loop with a second put_object for a file whose first write raised
UploadFile_retry(upload, put_ok) ==
    /\ req.pc = "upload"
    /\ LET chk == check_upload(upload)
           key == object_key(upload)
           urls == Append(req.image_urls, cdn_url(key))
           once == Append(req.attempts, Attempt("put_object", Len(urls)))
           made == IF put_ok THEN once ELSE Append(once, Attempt("put_object", Len(urls)))
       IN IF chk # "ok"
          THEN /\ resp' = After(Outcome("create", req.n, 400, chk), req.attempts)
               /\ req' = Idle
               /\ storage' = storage
          ELSE /\ storage' = storage \cup {put_object(upload, key, req.n)}
               /\ resp' = After(Running(req.n), made)
               /\ req' = [req EXCEPT !.image_urls = urls, !.attempts = made,
                                     !.pc = IF Len(urls) = req.nfiles
                                            THEN "insert_post" ELSE "upload"]
    /\ UNCHANGED <<settings, posts, images, ncreate>>

\* one iteration of the loop of upload_images_to_spaces: the next file of
\* the batch is checked and written; after the last one the URLs are returned
UploadFile(upload, put_ok) ==
    /\ req.pc = "upload"
    /\ LET chk == check_upload(upload)
           key == object_key(upload)
           urls == Append(req.image_urls, cdn_url(key))
           made == Append(req.attempts, Attempt("put_object", Len(urls)))
       IN IF chk # "ok"
          THEN /\ resp' = After(Outcome("create", req.n, 400, chk), req.attempts)
               /\ req' = Idle
               /\ storage' = storage
          ELSE IF ~put_ok
          THEN /\ resp' = After(Outcome("create", req.n, 500, "Failed to upload image"), made)
               /\ req' = Idle
               /\ storage' = storage
          ELSE /\ storage' = storage \cup {put_object(upload, key, req.n)}
               /\ resp' = After(Running(req.n), made)
               /\ req' = [req EXCEPT !.image_urls = urls, !.attempts = made,
                                     !.pc = IF Len(urls) = req.nfiles
                                            THEN "insert_post" ELSE "upload"]
    /\ UNCHANGED <<settings, posts, images, ncreate>>

\* post_payload: model_dump(exclude={"image_urls"}) with the phones as int
post_payload(validated) ==
    [validated EXCEPT
        !.phone_number = IntOf(validated.phone_number),
        !.alt_phone_number = IF validated.alt_phone_number # NoneS
                             THEN IntOf(validated.alt_phone_number)
                             ELSE NoneInt]

\* the id and the timestamp the database gives the next post row
next_post_id == req.n
now == req.n

\* the handler with a compensation: the objects of the request are deleted
\* from storage when the post row cannot be inserted
InsertPost_with_cleanup(outcome) ==
    /\ req.pc = "insert_post"
    /\ LET r == insert_rescue_post(post_payload(req.validated), next_post_id, now, outcome)
           made == Append(req.attempts, Attempt("insert_rescue_post", 0))
       IN IF r.status # 200
          THEN /\ resp' = [Outcome("create", req.n, r.status, r.message)
                             EXCEPT !.db = outcome, !.attempts = made]
               /\ req' = Idle
               /\ posts' = posts
               /\ storage' = {o \in storage : o.request # req.n}
          ELSE /\ posts' = posts \cup {r.data[1]}
               /\ resp' = After(Running(req.n), made)
               /\ req' = [req EXCEPT !.pc = "insert_images", !.post_record = r.data[1],
                                     !.attempts = made]
               /\ storage' = storage
    /\ UNCHANGED <<settings, images, ncreate>>

InsertPost(outcome) ==
    /\ req.pc = "insert_post"
    /\ LET r == insert_rescue_post(post_payload(req.validated), next_post_id, now, outcome)
           made == Append(req.attempts, Attempt("insert_rescue_post", 0))
       IN IF r.status # 200
          THEN /\ resp' = [Outcome("create", req.n, r.status, r.message)
                             EXCEPT !.db = outcome, !.attempts = made]
               /\ req' = Idle
               /\ posts' = posts
          ELSE /\ posts' = posts \cup {r.data[1]}
               /\ resp' = After(Running(req.n), made)
               /\ req' = [req EXCEPT !.pc = "insert_images", !.post_record = r.data[1],
                                     !.attempts = made]
    /\ UNCHANGED <<settings, images, storage, ncreate>>

\* images_payload: one row per URL, each carrying the id of the post row
images_payload(image_urls, post_record) ==
    [k \in 1..Len(image_urls) |-> [image_url |-> image_urls[k], post_id |-> post_record.id]]

\* the handler answering right after the image rows are written, the
\* notification left to a background task
InsertImages_then_respond(outcome) ==
    /\ req.pc = "insert_images"
    /\ LET r == insert_images(images_payload(req.image_urls, req.post_record), outcome)
           made == IF req.image_urls = <<>> THEN req.attempts
                   ELSE Append(req.attempts, Attempt("insert_images", 0))
       IN IF r.status # 200
          THEN /\ resp' = [Outcome("create", req.n, r.status, r.message)
                             EXCEPT !.db = outcome, !.attempts = made]
               /\ req' = Idle
               /\ images' = images
          ELSE /\ images' = images \cup Range(r.data)
               /\ resp' = [Outcome("create", req.n, 200, "") EXCEPT
                             !.post = req.post_record, !.images = r.data,
                             !.attempts = made]
               /\ req' = Idle
    /\ UNCHANGED <<settings, posts, storage, ncreate>>

InsertImages(outcome) ==
    /\ req.pc = "insert_images"
    /\ LET r == insert_images(images_payload(req.image_urls, req.post_record), outcome)
           made == IF req.image_urls = <<>> THEN req.attempts
                   ELSE Append(req.attempts, Attempt("insert_images", 0))
       IN IF r.status # 200
          THEN /\ resp' = [Outcome("create", req.n, r.status, r.message)
                             EXCEPT !.db = outcome, !.attempts = made]
               /\ req' = Idle
               /\ images' = images
          ELSE /\ images' = images \cup Range(r.data)
               /\ resp' = After(Running(req.n), made)
               /\ req' = [req EXCEPT !.pc = "notify", !.image_records = r.data,
                                     !.attempts = made]
    /\ UNCHANGED <<settings, posts, storage, ncreate>>

\* text_fields handed to the notifier
text_fields(validated) ==
    <<[label |-> "Full Name", value |-> validated.full_name],
      [label |-> "Phone", value |-> validated.phone_number],
      [label |-> "Alt Phone", value |-> validated.alt_phone_number],
      [label |-> "Priority Level", value |-> validated.priority_level],
      [label |-> "Location URL", value |-> validated.location_url]>>

\* return {"post": post_record, "images": image_records}
Created(made) ==
    [Outcome("create", req.n, 200, "") EXCEPT
        !.post = req.post_record, !.images = req.image_records, !.calls = made,
        !.attempts = req.attempts]


\* the notifier without the except clause: an exception of the first
\* client.post reaches the handler
NotifyFirst_uncaught(result) ==
    /\ req.pc = "notify"
    /\ LET caption == _format_html_message(text_fields(req.validated), FALSE)
           imgs == notifier_images(req.image_urls)
           call == first_request(settings.telegram_channel_id, caption, imgs)
           made == Append(req.calls, call @@ [result |-> result])
       IN IF ~telegram_configured
          THEN /\ resp' = Created(req.calls)
               /\ req' = Idle
          ELSE IF result = PostRaises
          THEN /\ resp' = [Outcome("create", req.n, 500, "Internal Server Error")
                             EXCEPT !.calls = made, !.attempts = req.attempts]
               /\ req' = Idle
          ELSE IF is_failure(result)
          THEN /\ resp' = After(Running(req.n), req.attempts)
               /\ req' = [req EXCEPT !.pc = "fallback", !.calls = made]
          ELSE /\ resp' = Created(made)
               /\ req' = Idle
    /\ UNCHANGED <<settings, posts, images, storage, ncreate>>

\* send_telegram_notification up to its first client.post and the test of
\* its result; the handler returns unless the fallback is due
NotifyFirst(result) ==
    /\ req.pc = "notify"
    /\ LET caption == _format_html_message(text_fields(req.validated), FALSE)
           imgs == notifier_images(req.image_urls)
           call == first_request(settings.telegram_channel_id, caption, imgs)
           made == Append(req.calls, call @@ [result |-> result])
       IN IF ~telegram_configured
          THEN /\ resp' = Created(req.calls)
               /\ req' = Idle
          ELSE IF result # PostRaises /\ is_failure(result)
          THEN /\ resp' = After(Running(req.n), req.attempts)
               /\ req' = [req EXCEPT !.pc = "fallback", !.calls = made]
          ELSE /\ resp' = Created(made)
               /\ req' = Idle
    /\ UNCHANGED <<settings, posts, images, storage, ncreate>>

\* the fallback client.post; whatever it does, the handler returns
NotifyFallback(result) ==
    /\ req.pc = "fallback"
    /\ LET caption == _format_html_message(text_fields(req.validated), FALSE)
           imgs == notifier_images(req.image_urls)
           call == fallback_request(settings.telegram_channel_id, caption, imgs)
       IN resp' = Created(Append(req.calls, call @@ [result |-> result]))
    /\ req' = Idle
    /\ UNCHANGED <<settings, posts, images, storage, ncreate>>

-----------------------------------------------------------------------------
(* routes/admin.py: the admin routes, each behind require_admin_token *)

Denied(op, token, gate) ==
    [Outcome(op, 0, gate.status, gate.message) EXCEPT !.token = token]

Handled(op, token, r, outcome) ==
    [Outcome(op, 0, r.status, r.message) EXCEPT
        !.token = token, !.executed = TRUE, !.db = outcome]

get_unverified_posts(token, outcome) ==
    /\ LET gate == require_admin_token(token)
           r == list_unverified_posts(outcome)
       IN IF ~gate.ok
          THEN resp' = Denied("list_unverified", token, gate)
          ELSE resp' = [Handled("list_unverified", token, r, outcome) EXCEPT !.data = r.data]
    /\ UNCHANGED <<settings, posts, images, storage, req, ncreate>>

route_verify_rescue_post(token, post_id, outcome) ==
    /\ LET gate == require_admin_token(token)
           r == verify_post(post_id, outcome)
       IN IF ~gate.ok
          THEN /\ resp' = Denied("verify", token, gate)
               /\ posts' = posts
          ELSE /\ resp' = [Handled("verify", token, r, outcome) EXCEPT !.data = <<post_id>>]
               /\ posts' = r.posts
    /\ UNCHANGED <<settings, images, storage, req, ncreate>>

route_delete_rescue_post(token, post_id, outcome) ==
    /\ LET gate == require_admin_token(token)
           r == delete_post(post_id, outcome)
       IN IF ~gate.ok
          THEN /\ resp' = Denied("delete", token, gate)
               /\ posts' = posts
               /\ images' = images
          ELSE /\ resp' = [Handled("delete", token, r, outcome) EXCEPT !.data = <<post_id>>]
               /\ posts' = r.posts
               /\ images' = r.images
    /\ UNCHANGED <<settings, storage, req, ncreate>>

-----------------------------------------------------------------------------

Next ==
    \/ \E payload \in Payloads, nfiles \in 0..MaxFiles : CreateRequest(payload, nfiles)
    \/ \E upload \in Uploads, put_ok \in BOOLEAN : UploadFile(upload, put_ok)
    \/ \E outcome \in InsertOutcomes : InsertPost(outcome)
    \/ \E outcome \in InsertOutcomes : InsertImages(outcome)
    \/ \E result \in PostResults : NotifyFirst(result)
    \/ \E result \in PostResults : NotifyFallback(result)
    \/ \E token \in Tokens, outcome \in DbOutcomes : get_unverified_posts(token, outcome)
    \/ \E token \in Tokens, post_id \in PostIds, outcome \in DbOutcomes :
         route_verify_rescue_post(token, post_id, outcome)
    \/ \E token \in Tokens, post_id \in PostIds, outcome \in DbOutcomes :
         route_delete_rescue_post(token, post_id, outcome)

Spec == Init /\ [][Next]_vars

-----------------------------------------------------------------------------
(* Properties *)

PostIdsOf(rows) == {p.id : p \in rows}
RowOf(rows, id) == CHOOSE p \in rows : p.id = id

\* C1: an admin operation runs only when the admin secret is configured and
\* the token header equals it; otherwise nothing runs and posts, images and
\* storage stay as they were: 500 when the secret is unconfigured, whatever
\* the token, and 401 when it is configured and the token is missing or
\* different.
C1_AdminGate ==
    [][resp'.op \in AdminOps =>
        /\ resp'.executed =>
             Truthy(settings.admin_token) /\ resp'.token = settings.admin_token
        /\ ~Truthy(settings.admin_token) => resp'.status = 500 /\ ~resp'.executed
        /\ Truthy(settings.admin_token) /\ resp'.token # settings.admin_token =>
             resp'.status = 401 /\ ~resp'.executed
        /\ ~resp'.executed => posts' = posts /\ images' = images /\ storage' = storage
      ]_vars

\* a delete with no token header is turned away while a post is stored
C1_Witness ==
    /\ resp.op = "delete" /\ resp.status = 401 /\ resp.token = None
    /\ posts # {}

\* C2: a post is created unverified; a stored post changes only by the admin
\* verify action, which sets is_verified and nothing else; a post goes only
\* by the admin delete action; is_verified never goes from true to false.
C2_PostLifecycle ==
    [][/\ \A q \in posts' :
            q.id \notin PostIdsOf(posts) => resp'.op = "create" /\ q.is_verified = FALSE
       /\ \A p \in posts :
            /\ p.id \notin PostIdsOf(posts') => resp'.op = "delete" /\ resp'.executed
            /\ p.id \in PostIdsOf(posts') /\ RowOf(posts', p.id) # p =>
                 /\ resp'.op = "verify" /\ resp'.executed
                 /\ RowOf(posts', p.id) = [p EXCEPT !.is_verified = TRUE]
            /\ p.id \in PostIdsOf(posts') /\ p.is_verified =>
                 RowOf(posts', p.id).is_verified
      ]_vars

\* a stored post has been verified by the admin verify action
C2_Witness ==
    /\ resp.op = "verify" /\ resp.status = 200
    /\ \E p \in posts : p.id = resp.data[1] /\ p.is_verified

\* C3 as stated: verify or delete of an id that does not exist ends with 404
\* and changes nothing.
C3_NotFoundAlways ==
    [][resp'.op \in {"verify", "delete"} /\ resp'.executed
         /\ resp'.data[1] \notin PostIdsOf(posts) =>
        /\ resp'.status = 404
        /\ posts' = posts /\ images' = images /\ storage' = storage
      ]_vars

\* C3 amended: verify or delete of an id that does not exist never succeeds
\* and changes nothing; it ends with 404 when the database executes the
\* statement and with 500 when the statement itself fails.
C3_NotFound ==
    [][resp'.op \in {"verify", "delete"} /\ resp'.executed
         /\ resp'.data[1] \notin PostIdsOf(posts) =>
        /\ resp'.status = IF resp'.db = "ok" THEN 404 ELSE 500
        /\ posts' = posts /\ images' = images /\ storage' = storage
      ]_vars

\* a delete of an id that is not stored answers 404 while another post is
C3_Witness ==
    /\ resp.op = "delete" /\ resp.status = 404
    /\ posts # {} /\ resp.data[1] \notin PostIdsOf(posts)

FileRejections ==
    {"Image file must have a filename", "Only image uploads are allowed",
     "Image file is empty", "Image file exceeds the size limit"}

\* C4: when a file of the batch is invalid the request is rejected and
\* nothing of the batch is committed: no object of the batch is in storage,
\* and no post row or image row was made.
C4_NoPartialUpload ==
    resp.op = "create" /\ resp.message \in FileRejections =>
        /\ resp.status = 400
        /\ \A o \in storage : o.request # resp.n
        /\ \A p \in posts : p.id # resp.n
        /\ \A i \in images : i.post_id # resp.n

\* C5: a create request whose fields fail validation ends with a
\* caller-input error and has no side effect: no object written, no row
\* inserted, no notification sent, whatever the number of files.
C5_ValidationNoSideEffects ==
    [][resp'.op = "create" /\ resp'.errors # <<>> =>
        /\ resp'.status = 400
        /\ posts' = posts /\ images' = images /\ storage' = storage
        /\ resp'.calls = <<>>
        /\ req'.pc = "idle"
      ]_vars

\* a submission with an unknown priority level was turned away
C5_Witness ==
    /\ resp.op = "create" /\ resp.status = 400
    /\ resp.errors = <<"priority_level">>
    /\ storage = {} /\ posts = {}

\* C6: a post row is inserted only after every file of the request, and at
\* least one, was checked and written to storage.
C6_ImageBeforePost ==
    [][\A q \in posts' :
        q.id \notin PostIdsOf(posts) =>
            /\ req.nfiles >= 1
            /\ Len(req.image_urls) = req.nfiles
            /\ \A k \in 1..Len(req.image_urls) :
                 \E o \in storage :
                    /\ o.request = req.n
                    /\ cdn_url(o.key) = req.image_urls[k]
                    /\ StartsWith(o.content_type, ImagePrefix)
                    /\ o.size > 0 /\ o.size <= max_bytes
      ]_vars

\* a post row exists together with the object of its request
C6_Witness ==
    \E p \in posts : \E o \in storage : o.request = p.id

\* C7: once the post row and the image rows are in, the notifier cannot
\* fail the request or touch the rows: every step of the notifier leaves the
\* tables alone and the handler answers 200 with the post and its images.
C7_NotifierNeverFails ==
    [][req.pc \in {"notify", "fallback"} /\ resp'.op = "create" =>
        /\ posts' = posts /\ images' = images
        /\ resp'.status \in {0, 200}
        /\ req'.pc = "idle" =>
             /\ resp'.status = 200
             /\ resp'.post = req.post_record
             /\ resp'.images = req.image_records
      ]_vars

\* the request succeeded although the fallback attempt raised
C7_Witness ==
    /\ resp.op = "create" /\ resp.status = 200
    /\ Len(resp.calls) = 2 /\ resp.calls[2].result = PostRaises
    /\ resp.post \in posts

FirstFailed(made) == made[1].result = PostRaises \/ made[1].result >= 400

\* the text of a fallback: the caption first, the photo URLs last
IsFallbackOf(call, made) ==
    /\ call.method = "sendMessage"
    /\ LET text == call.json.text
           first == made[1]
           caption == IF first.method = "sendPhoto" THEN first.json.caption
                      ELSE IF first.method = "sendMediaGroup"
                      THEN first.json.media[1].caption
                      ELSE first.json.text
           urls == IF first.method = "sendPhoto" THEN <<first.json.photo>>
                   ELSE IF first.method = "sendMediaGroup"
                   THEN [k \in 1..Len(first.json.media) |-> first.json.media[k].media]
                   ELSE <<>>
       IN /\ Len(text) >= Len(caption) + Len(urls)
          /\ SubSeq(text, 1, Len(caption)) = caption
          /\ SubSeq(text, Len(text) - Len(urls) + 1, Len(text)) = urls

\* C8 as stated: with the notifier configured, a first attempt that fails
\* is followed by exactly one fallback text message, and a first attempt
\* that succeeds by none.
C8_FallbackOnAnyFailure ==
    resp.op = "create" /\ resp.status = 200 /\ telegram_configured =>
        /\ Len(resp.calls) \in {1, 2}
        /\ FirstFailed(resp.calls) =>
             Len(resp.calls) = 2 /\ IsFallbackOf(resp.calls[2], resp.calls)
        /\ ~FirstFailed(resp.calls) => Len(resp.calls) = 1

\* C8 amended: with the notifier configured, a first attempt answered with a
\* status of 400 or more is followed by exactly one fallback text message
\* (the caption, then the photo URLs); a first attempt that succeeds or
\* raises is followed by none; never more than two calls.
C8_FallbackOnErrorStatus ==
    resp.op = "create" /\ resp.status = 200 /\ telegram_configured =>
        /\ Len(resp.calls) \in {1, 2}
        /\ resp.calls[1].result # PostRaises /\ resp.calls[1].result >= 400 =>
             Len(resp.calls) = 2 /\ IsFallbackOf(resp.calls[2], resp.calls)
        /\ resp.calls[1].result = PostRaises \/ resp.calls[1].result < 400 =>
             Len(resp.calls) = 1

\* a refused photo message was followed by the fallback text
C8_Witness ==
    /\ resp.op = "create" /\ resp.status = 200
    /\ Len(resp.calls) = 2
    /\ resp.calls[1].method = "sendPhoto" /\ resp.calls[1].result = 500
    /\ resp.calls[2].method = "sendMessage"

-----------------------------------------------------------------------------
(* The notifier on its own: send_telegram_notification called with any     *)
(* list of photo URLs, empty strings among them.                           *)

SampleUrl(u) ==
    [host |-> "https://cdn", path |-> "projectrakawarananew",
     key |-> [prefix |-> "posts_images", uuid |-> u, ext |-> ExtPng]]

UrlSamples == {EmptyUrl, SampleUrl(1), SampleUrl(2)}

RECURSIVE SeqsUpTo(_, _)
SeqsUpTo(S, n) ==
    IF n = 0 THEN {<<>>}
    ELSE SeqsUpTo(S, n - 1) \cup
         {Append(q, x) : q \in {r \in SeqsUpTo(S, n - 1) : Len(r) = n - 1}, x \in S}

InitNotify ==
    /\ settings \in SettingsSpace
    /\ posts = {}
    /\ images = {}
    /\ storage = {}
    /\ \E urls \in SeqsUpTo(UrlSamples, MaxUrls) :
         req = [Idle EXCEPT !.pc = "notify", !.n = 1,
                            !.validated = validate_with_app_error(ValidPayload).validated,
                            !.image_urls = urls]
    /\ resp = Running(1)
    /\ ncreate = 1

NextNotify ==
    \/ \E result \in PostResults : NotifyFirst(result)
    \/ \E result \in PostResults : NotifyFallback(result)

SpecNotify == InitNotify /\ [][NextNotify]_vars

\* the k-th smallest element of a set of numbers
KthOf(S, k) == CHOOSE x \in S : Cardinality({y \in S : y < x}) = k - 1

\* C9: the first delivery goes by the number of non-empty photo URLs: one
\* gives sendPhoto with the URL and the caption; two or more give one
\* sendMediaGroup with an item per URL in input order, the caption on the
\* first item only; none gives sendMessage with the caption as text.
C9_FirstDelivery ==
    [][req.pc = "notify" /\ resp'.op = "create" /\ telegram_configured =>
        LET made == IF req'.pc = "fallback" THEN req'.calls ELSE resp'.calls
            call == made[1]
            given == {k \in 1..Len(req.image_urls) : req.image_urls[k] # EmptyUrl}
            n == Cardinality(given)
            caption == _format_html_message(text_fields(req.validated), FALSE)
        IN /\ Len(made) = 1
           /\ n = 0 => call.method = "sendMessage" /\ call.json.text = caption
           /\ n = 1 =>
                /\ call.method = "sendPhoto"
                /\ call.json.photo = req.image_urls[KthOf(given, 1)]
                /\ call.json.caption = caption
           /\ n >= 2 =>
                /\ call.method = "sendMediaGroup"
                /\ Len(call.json.media) = n
                /\ \A j \in 1..n :
                     /\ call.json.media[j].type = "photo"
                     /\ call.json.media[j].media = req.image_urls[KthOf(given, j)]
                     /\ ("caption" \in DOMAIN call.json.media[j]) <=> (j = 1)
                /\ call.json.media[1].caption = caption
      ]_vars

\* three URLs of which one is empty went out as a media group of two
C9_Witness ==
    /\ req.pc = "fallback" /\ Len(req.image_urls) = 3
    /\ req.calls[1].method = "sendMediaGroup"
    /\ Len(req.calls[1].json.media) = 2

-----------------------------------------------------------------------------
(* services/posts_service.py: the criticality scorer and the top-critical  *)
(* query.  Scores are whole numbers; a timestamp is a number of seconds.   *)

NonInt == -998                   \* a value that is not an int, where one is expected

\* post.get(key), default where the key is absent
Get(post, key, default) == IF key \in DOMAIN post THEN post[key] ELSE default

Min(a, b) == IF a <= b THEN a ELSE b

TagHead == <<"h", "e", "a", "d">>
TagNeck == <<"n", "e", "c", "k">>
TagChest == <<"c", "h", "e", "s", "t">>
TagShoulder == <<"s", "h", "o", "u", "l", "d", "e", "r">>
TagWaist == <<"w", "a", "i", "s", "t">>
TagKnee == <<"k", "n", "e", "e">>
TagAnkle == <<"a", "n", "k", "l", "e">>

\* water_map.get(water_level, 0)
water_map(water_level) ==
    IF water_level = TagHead THEN 9
    ELSE IF water_level = TagNeck THEN 8
    ELSE IF water_level = TagChest THEN 7
    ELSE IF water_level = TagShoulder THEN 6
    ELSE IF water_level = TagWaist THEN 5
    ELSE IF water_level = TagKnee THEN 3
    ELSE IF water_level = TagAnkle THEN 1
    ELSE 0

PeopleCap == 50

needs == <<"need_foods", "need_water", "need_transport", "need_power", "need_clothes">>

RECURSIVE needs_score(_, _)
needs_score(post, i) ==
    IF i > Len(needs) THEN 0
    ELSE (IF Get(post, needs[i], FALSE) THEN 2 ELSE 0) + needs_score(post, i + 1)

\* the score without the cap on the number of people
_priority_score_uncapped(post) ==
    LET people == IF Get(post, "number_of_peoples_to_rescue", NoneInt) = NoneInt
                  THEN 0 ELSE post.number_of_peoples_to_rescue
        raw_level == Get(post, "water_level", NoneS)
        water_level == Lower(IF raw_level = NoneS THEN <<>> ELSE raw_level)
        safe_hours == Get(post, "safe_hours", NoneInt)
        created_at == Get(post, "created_at", NoneInt)
        score == people * 2
                 + water_map(water_level)
                 + (IF Get(post, "is_medical_needed", FALSE) THEN 10 ELSE 0)
                 + (IF Get(post, "need_medic", FALSE) THEN 6 ELSE 0)
                 + needs_score(post, 1)
                 + (IF safe_hours \in {NoneInt, NonInt} THEN 0
                    ELSE IF safe_hours <= 1 THEN 6
                    ELSE IF safe_hours <= 4 THEN 4
                    ELSE IF safe_hours <= 12 THEN 2
                    ELSE 0)
                 + (IF Get(post, "is_verified", FALSE) THEN 1 ELSE 0)
        tie_breaker == IF created_at = NoneInt THEN 0 ELSE 0 - created_at
    IN <<score, tie_breaker>>

\* _priority_score: (score, tie_breaker); the timestamp of a created_at that
\* is missing or does not parse (NoneInt) counts as 0
_priority_score(post) ==
    LET people == IF Get(post, "number_of_peoples_to_rescue", NoneInt) = NoneInt
                  THEN 0 ELSE post.number_of_peoples_to_rescue
        raw_level == Get(post, "water_level", NoneS)
        water_level == Lower(IF raw_level = NoneS THEN <<>> ELSE raw_level)
        safe_hours == Get(post, "safe_hours", NoneInt)
        created_at == Get(post, "created_at", NoneInt)
        score == Min(people, PeopleCap) * 2
                 + water_map(water_level)
                 + (IF Get(post, "is_medical_needed", FALSE) THEN 10 ELSE 0)
                 + (IF Get(post, "need_medic", FALSE) THEN 6 ELSE 0)
                 + needs_score(post, 1)
                 + (IF safe_hours \in {NoneInt, NonInt} THEN 0
                    ELSE IF safe_hours <= 1 THEN 6
                    ELSE IF safe_hours <= 4 THEN 4
                    ELSE IF safe_hours <= 12 THEN 2
                    ELSE 0)
                 + (IF Get(post, "is_verified", FALSE) THEN 1 ELSE 0)
        tie_breaker == IF created_at = NoneInt THEN 0 ELSE 0 - created_at
    IN <<score, tie_breaker>>

\* tuple comparison of two sort keys: a >= b
KeyGeq(a, b) == a[1] > b[1] \/ (a[1] = b[1] /\ a[2] >= b[2])

\* sorted(rows, key=_priority_score, reverse=True): descending, rows with
\* equal keys in the order they came
RECURSIVE sorted_desc(_)
sorted_desc(rows) ==
    IF rows = <<>> THEN <<>>
    ELSE LET rest == sorted_desc(SubSeq(rows, 1, Len(rows) - 1))
             x == rows[Len(rows)]
             ahead == {k \in 1..Len(rest) : KeyGeq(_priority_score(rest[k]), _priority_score(x))}
             at == IF ahead = {} THEN 0 ELSE CHOOSE k \in ahead : \A j \in ahead : j <= k
         IN SubSeq(rest, 1, at) \o <<x>> \o SubSeq(rest, at + 1, Len(rest))

\* fetch_rescue_posts_with_images: every row, newest first
RECURSIVE rows_newest_first(_)
rows_newest_first(rows) ==
    IF rows = {} THEN <<>>
    ELSE LET r == CHOOSE x \in rows : \A y \in rows : y.created_at <= x.created_at
         IN <<r>> \o rows_newest_first(rows \ {r})

\* the rows of a table that _priority_score can date, and the others
dated(rows) == {r \in rows : r.created_at # NoneInt}
undated(rows) == {r \in rows : r.created_at = NoneInt}

\* where the database puts the rows without a usable created_at in its
\* newest-first order: ahead of the dated rows or behind them
UndatedPlaces == {"first", "last"}

\* fetch_rescue_posts_with_images: every row, newest first
fetch_rescue_posts_with_images(outcome, place) ==
    IF outcome = "api_error"
    THEN [status |-> 500, message |-> "Failed to fetch rescue posts", data |-> <<>>]
    ELSE [status |-> 200, message |-> "",
          data |-> IF place = "first"
                   THEN rows_newest_first(undated(select_with_images))
                          \o rows_newest_first(dated(select_with_images))
                   ELSE rows_newest_first(dated(select_with_images))
                          \o rows_newest_first(undated(select_with_images))]

DefaultLimit == 3

\* the fetched rows cut to the limit without the sort
list_top_critical_posts_unsorted(fetched, limit) ==
    SubSeq(fetched, 1, Min(limit, Len(fetched)))

\* list_top_critical_posts: sorted_posts[:limit], for a limit that is not
\* negative
list_top_critical_posts(fetched, limit) ==
    LET sorted_posts == sorted_desc(fetched) IN
    SubSeq(sorted_posts, 1, Min(limit, Len(sorted_posts)))

\* ids of a list of rows
ids_of(rows) == [k \in 1..Len(rows) |-> rows[k].id]

\* the limit parameter a request to /posts/critical/top may carry in its
\* query string
QueryLimits == {NoneInt, 1, 5}

\* GET /posts/critical/top: the route declares no limit parameter and passes
\* none to the service
list_critical_posts(query_limit, outcome, place) ==
    /\ LET r == fetch_rescue_posts_with_images(outcome, place)
           top == list_top_critical_posts(r.data, DefaultLimit)
       IN resp' = [Outcome("top_critical", 0, r.status, r.message) EXCEPT
                     !.db = outcome,
                     !.form = [limit |-> query_limit],
                     !.fetched = ids_of(r.data),
                     !.data = ids_of(top)]
    /\ UNCHANGED <<settings, posts, images, storage, req, ncreate>>

-----------------------------------------------------------------------------
(* The scorer on its own: one stored row drawn from the sample rows *)

BaseRow ==
    [id |-> 1, created_at |-> 1,
     number_of_peoples_to_rescue |-> NoneInt, water_level |-> NoneS,
     is_medical_needed |-> FALSE, need_medic |-> FALSE,
     need_foods |-> FALSE, need_water |-> FALSE, need_transport |-> FALSE,
     need_power |-> FALSE, need_clothes |-> FALSE,
     safe_hours |-> NoneInt, is_verified |-> FALSE]

RowSamples ==
    [id : {1}, created_at : {1, NoneInt},
     number_of_peoples_to_rescue : {NoneInt, 2, 10, 50, 51, 10000},
     water_level : {NoneS, TagHead, TagNeck, TagChest, TagShoulder, TagWaist, TagKnee,
                    TagAnkle, <<"H", "e", "a", "d">>, <<"A", "N", "K", "L", "E">>,
                    <<"r", "o", "o", "f">>},
     is_medical_needed : BOOLEAN, need_medic : BOOLEAN,
     need_foods : BOOLEAN, need_water : BOOLEAN, need_transport : BOOLEAN,
     need_power : BOOLEAN, need_clothes : BOOLEAN,
     safe_hours : {NoneInt, NonInt, 0, 1, 2, 4, 5, 12, 13, 1000},
     is_verified : BOOLEAN]

\* rows that differ from BaseRow in at most MaxScoreDeviations fields
MaxScoreDeviations == 3
ScoreRows ==
    {r \in RowSamples :
        Cardinality({f \in DOMAIN r : r[f] # BaseRow[f]}) <= MaxScoreDeviations}

InitScore ==
    /\ settings = FullSettings
    /\ posts \in {{r} : r \in ScoreRows}
    /\ images = {}
    /\ storage = {}
    /\ req = Idle
    /\ resp = Outcome("none", 0, 0, "")
    /\ ncreate = 0

NextScore == \E outcome \in DbOutcomes : list_critical_posts(NoneInt, outcome, "first")

SpecScore == InitScore /\ [][NextScore]_vars

\* the score as the claim words it
ClaimWater(tag) ==
    CASE tag = TagHead -> 9 [] tag = TagNeck -> 8 [] tag = TagChest -> 7
      [] tag = TagShoulder -> 6 [] tag = TagWaist -> 5 [] tag = TagKnee -> 3
      [] tag = TagAnkle -> 1 [] OTHER -> 0

ClaimSafeBonus(h) ==
    CASE h \in {NoneInt, NonInt} -> 0
      [] h \notin {NoneInt, NonInt} /\ h <= 1 -> 6
      [] h \notin {NoneInt, NonInt} /\ h > 1 /\ h <= 4 -> 4
      [] h \notin {NoneInt, NonInt} /\ h > 4 /\ h <= 12 -> 2
      [] OTHER -> 0

ClaimScore(p) ==
    LET count == IF p.number_of_peoples_to_rescue = NoneInt
                 THEN 0 ELSE p.number_of_peoples_to_rescue
        capped == IF count > 50 THEN 50 ELSE count
        tag == IF p.water_level = NoneS THEN <<>> ELSE Lower(p.water_level)
        set(f) == IF p[f] THEN 1 ELSE 0
    IN 2 * capped
       + ClaimWater(tag)
       + 10 * set("is_medical_needed")
       + 6 * set("need_medic")
       + 2 * (set("need_foods") + set("need_water") + set("need_transport")
              + set("need_power") + set("need_clothes"))
       + ClaimSafeBonus(p.safe_hours)
       + set("is_verified")

\* the two posts of the worked example
ExampleP1 ==
    [BaseRow EXCEPT !.is_medical_needed = TRUE, !.water_level = TagAnkle,
                    !.number_of_peoples_to_rescue = 10]
ExampleP2 ==
    [BaseRow EXCEPT !.water_level = TagHead, !.number_of_peoples_to_rescue = 2]

\* C10: the score of a post is 2 x min(people, 50) + the water-level value of
\* the lower-cased tag + 10 for medical need + 6 for need_medic + 2 for each
\* of the five other needs + the safe-hours bonus + 1 if verified; the two
\* example posts score 31 and 13.
C10_Score ==
    \A p \in posts :
        /\ _priority_score(p)[1] = ClaimScore(p)
        /\ p = ExampleP1 => _priority_score(p)[1] = 31
        /\ p = ExampleP2 => _priority_score(p)[1] = 13

\* the first example post was scored and ranked
C10_Witness ==
    /\ posts = {ExampleP1}
    /\ resp.op = "top_critical" /\ resp.status = 200 /\ resp.data = <<1>>

-----------------------------------------------------------------------------
(* The top-critical query on tables of several rows *)

MaxRows == 4                     \* rows in the table

\* a stored row of score 0 (nobody counted) or 2 (one person), created at
\* second 1 or 2, or without a created_at that _priority_score can parse;
\* the kinds of row are <<people, created_at>>
RankRow(id, people, created_at) ==
    [BaseRow EXCEPT !.id = id, !.number_of_peoples_to_rescue = people,
                    !.created_at = created_at]

RankRowKinds == {<<NoneInt, NoneInt>>, <<NoneInt, 1>>, <<NoneInt, 2>>, <<1, 1>>}

RankTables ==
    UNION {{{RankRow(i, f[i][1], f[i][2]) : i \in 1..k} :
              f \in [1..k -> RankRowKinds]} : k \in 0..MaxRows}

InitRank ==
    /\ settings = FullSettings
    /\ posts \in RankTables
    /\ images = {}
    /\ storage = {}
    /\ req = Idle
    /\ resp = Outcome("none", 0, 0, "")
    /\ ncreate = 0

NextRank ==
    \E query_limit \in QueryLimits, outcome \in DbOutcomes, place \in UndatedPlaces :
        list_critical_posts(query_limit, outcome, place)

SpecRank == InitRank /\ [][NextRank]_vars

\* a is in the list, and b is behind it or not in the list
Ahead(ids, a, b) ==
    \E i \in 1..Len(ids) :
        /\ ids[i] = a
        /\ \A j \in 1..Len(ids) : ids[j] = b => i < j

Ranked == resp.op = "top_critical" /\ resp.status = 200

Score(p) == _priority_score(p)[1]

\* of two dated posts of equal score the later one is never ahead
EarlierFirst ==
    \A a, b \in posts :
        (/\ Score(a) = Score(b)
         /\ a.created_at # NoneInt /\ b.created_at # NoneInt
         /\ a.created_at < b.created_at)
        => ~Ahead(resp.data, b.id, a.id)

\* a post without a usable created_at has the tiebreak 0, and the ranking
\* leaves it where the fetch put it among the dated posts of its score
UndatedNeutral ==
    \A a, b \in posts :
        (/\ Score(a) = Score(b)
         /\ a.created_at = NoneInt /\ b.created_at # NoneInt)
        => /\ _priority_score(a)[2] = 0
           /\ (Ahead(resp.data, a.id, b.id) \/ Ahead(resp.data, b.id, a.id))
              => (Ahead(resp.data, a.id, b.id) <=> Ahead(resp.fetched, a.id, b.id))

\* C11: in the top-critical ranking, of two posts of equal score the one
\* created earlier is ranked first, and a post whose created_at is missing
\* or does not parse has the tiebreak 0 and is neither favoured nor
\* penalised against the dated posts of its score.
C11_TieBreak == Ranked => (EarlierFirst /\ UndatedNeutral)

\* the list is descending by (score, tiebreak)
Descending(ids) ==
    \A i, j \in 1..Len(ids) :
        i < j => KeyGeq(_priority_score(RowOf(posts, ids[i])),
                        _priority_score(RowOf(posts, ids[j])))

\* no post left out of the list has a strictly higher score than one in it
NoneLeftOutHigher(ids) ==
    \A p \in posts :
        p.id \notin Range(ids) =>
            \A k \in 1..Len(ids) : Score(p) <= Score(RowOf(posts, ids[k]))

\* the list is the top n of the whole table
TopOf(ids, n) ==
    /\ Len(ids) = Min(n, Cardinality(posts))
    /\ Range(ids) \subseteq PostIdsOf(posts)
    /\ \A i, j \in 1..Len(ids) : i # j => ids[i] # ids[j]
    /\ Descending(ids)
    /\ NoneLeftOutHigher(ids)

\* C12 as stated: the query takes an optional limit N (default 3) and
\* returns exactly min(N, number of stored posts) posts of the whole table,
\* descending by (score, tiebreak), none left out scoring strictly higher
\* than one returned.
C12_TopWithLimit ==
    Ranked => TopOf(resp.data, IF resp.form.limit = NoneInt
                               THEN DefaultLimit ELSE resp.form.limit)

\* C12 amended: the endpoint returns the top min(3, number of stored posts)
\* whatever limit the request carries; the service operation, given a limit
\* N >= 0, returns the top min(N, number of stored posts) of every table
\* (the second conjunct, taken on each table before any request).
C12_TopThree ==
    /\ Ranked => TopOf(resp.data, DefaultLimit)
    /\ resp.op = "none" =>
          \A n \in 0..(MaxRows + 1), place \in UndatedPlaces :
              TopOf(ids_of(list_top_critical_posts(
                               fetch_rescue_posts_with_images("ok", place).data, n)), n)

\* four posts are stored and a request carrying limit=1 got three of them
C12_Witness ==
    /\ Ranked
    /\ Cardinality(posts) = 4
    /\ resp.form.limit = 1
    /\ Len(resp.data) = 3

-----------------------------------------------------------------------------
(* routes/posts.py, services/posts_service.py, repositories/posts_repository.py: *)
(* GET /posts/filter.  The filters are a function from the names of the     *)
(* filters that are set to their values; a filter that is None is not in    *)
(* its domain.                                                             *)

\* the keys of the filters dict, in the order the service builds it
FilterFields ==
    <<"district", "emergency_type", "water_level", "is_medical_needed",
      "need_foods", "need_water", "need_transport", "need_medic", "need_power",
      "need_clothes", "is_verified", "min_people", "max_safe_hours">>

BoolFilters ==
    {"is_medical_needed", "need_foods", "need_water", "need_transport",
     "need_medic", "need_power", "need_clothes", "is_verified"}

IntFilters == {"min_people", "max_safe_hours"}

\* one round of the loop of fetch_rescue_posts_filtered: gte, lte or eq
\* added to the query; a column that is NULL meets none of them
add_filter(query, field, value) ==
    IF field = "min_people"
    THEN {r \in query : /\ r.number_of_peoples_to_rescue # NoneInt
                        /\ r.number_of_peoples_to_rescue >= value}
    ELSE IF field = "max_safe_hours"
    THEN {r \in query : r.safe_hours # NoneInt /\ r.safe_hours <= value}
    ELSE {r \in query : r[field] = value}

\* bool(value) is False
Falsy(field, value) ==
    IF field \in BoolFilters THEN value = FALSE
    ELSE IF field \in IntFilters THEN value = 0
    ELSE IF field = "water_level" THEN value = <<>>
    ELSE value = ""

\* the loop with "if not value: continue" for "if value is None: continue"
RECURSIVE build_query_skip_falsy(_, _, _)
build_query_skip_falsy(i, query, filters) ==
    IF i > Len(FilterFields) THEN query
    ELSE LET field == FilterFields[i] IN
         IF field \notin DOMAIN filters \/ Falsy(field, filters[field])
         THEN build_query_skip_falsy(i + 1, query, filters)
         ELSE build_query_skip_falsy(i + 1, add_filter(query, field, filters[field]), filters)

\* for field, value in filters.items(): the filters that are not None are
\* added to the query one after the other
RECURSIVE build_query(_, _, _)
build_query(i, query, filters) ==
    IF i > Len(FilterFields) THEN query
    ELSE LET field == FilterFields[i] IN
         IF field \notin DOMAIN filters
         THEN build_query(i + 1, query, filters)
         ELSE build_query(i + 1, add_filter(query, field, filters[field]), filters)

\* fetch_rescue_posts_filtered: the rows that pass the query, newest first
fetch_rescue_posts_filtered(filters, outcome) ==
    IF outcome = "api_error"
    THEN [status |-> 500, message |-> "Failed to fetch rescue posts", data |-> <<>>,
          db |-> outcome]
    ELSE [status |-> 200, message |-> "",
          data |-> rows_newest_first(build_query(1, select_with_images, filters)),
          db |-> outcome]

\* the service with "not any(filters.values())" for "all(v is None ...)"
list_rescue_posts_filtered_any_truthy(filters, outcome) ==
    IF \A f \in DOMAIN filters : Falsy(f, filters[f])
    THEN [status |-> 400, message |-> "At least one filter must be provided",
          data |-> <<>>, db |-> ""]
    ELSE fetch_rescue_posts_filtered(filters, outcome)

\* list_rescue_posts_filtered: no filter set is a caller error, raised
\* before the repository is called
list_rescue_posts_filtered(filters, outcome) ==
    IF \A i \in 1..Len(FilterFields) : FilterFields[i] \notin DOMAIN filters
    THEN [status |-> 400, message |-> "At least one filter must be provided",
          data |-> <<>>, db |-> ""]
    ELSE fetch_rescue_posts_filtered(filters, outcome)

\* GET /posts/filter
filter_rescue_posts(filters, outcome) ==
    /\ LET r == list_rescue_posts_filtered(filters, outcome)
       IN resp' = [Outcome("filter", 0, r.status, r.message) EXCEPT
                     !.form = filters, !.db = r.db, !.data = ids_of(r.data)]
    /\ UNCHANGED <<settings, posts, images, storage, req, ncreate>>

-----------------------------------------------------------------------------
(* The filter on its own: a table drawn from three stored rows and one      *)
(* request, whose filters are in resp.form until it is handled              *)

FilterRow1 ==
    [BaseRow EXCEPT !.id = 1, !.created_at = 1, !.water_level = TagKnee,
                    !.number_of_peoples_to_rescue = 5, !.safe_hours = 4,
                    !.is_medical_needed = TRUE, !.need_foods = TRUE,
                    !.need_water = TRUE, !.need_medic = TRUE,
                    !.need_clothes = TRUE, !.is_verified = TRUE]
    @@ [district |-> "Galle", emergency_type |-> "flood"]

FilterRow2 ==
    [BaseRow EXCEPT !.id = 2, !.created_at = 2, !.water_level = TagHead,
                    !.number_of_peoples_to_rescue = 4, !.safe_hours = 0,
                    !.need_transport = TRUE, !.need_power = TRUE]
    @@ [district |-> "Kandy", emergency_type |-> "landslide"]

\* a row whose optional columns are NULL
FilterRow3 ==
    [BaseRow EXCEPT !.id = 3, !.created_at = 3]
    @@ [district |-> None, emergency_type |-> "flood"]

FilterTables == SUBSET {FilterRow1, FilterRow2, FilterRow3}

\* two values for each filter
FilterValue(field, k) ==
    CASE field = "district" -> IF k = 1 THEN "Galle" ELSE "Kandy"
      [] field = "emergency_type" -> IF k = 1 THEN "flood" ELSE "landslide"
      [] field = "water_level" -> IF k = 1 THEN TagKnee ELSE TagHead
      [] field \in BoolFilters -> k = 1
      [] field = "min_people" -> IF k = 1 THEN 5 ELSE 0
      [] field = "max_safe_hours" -> IF k = 1 THEN 4 ELSE 0

MaxFilters == 2                  \* filters set in one request

FilterSamples ==
    UNION {{[f \in S |-> FilterValue(f, c[f])] : c \in [S -> {1, 2}]} :
             S \in {T \in SUBSET Range(FilterFields) : Cardinality(T) <= MaxFilters}}

InitFilter ==
    /\ settings = FullSettings
    /\ posts \in FilterTables
    /\ images = {}
    /\ storage = {}
    /\ req = Idle
    /\ resp \in {[Outcome("none", 0, 0, "") EXCEPT !.form = filters] :
                  filters \in FilterSamples}
    /\ ncreate = 0

NextFilter == \E outcome \in DbOutcomes : filter_rescue_posts(resp.form, outcome)

SpecFilter == InitFilter /\ [][NextFilter]_vars

\* the predicate of one filter as the claim words it; a post that has no
\* people count or no safe hours does not satisfy the range predicate
Satisfies(p, field, value) ==
    CASE field = "min_people" ->
           p.number_of_peoples_to_rescue # NoneInt /\ p.number_of_peoples_to_rescue >= value
      [] field = "max_safe_hours" ->
           p.safe_hours # NoneInt /\ p.safe_hours <= value
      [] OTHER -> p[field] = value

Filtered == resp.op = "filter" /\ resp.status = 200

\* C13: for any non-empty set of filters the filter operation returns
\* exactly the stored posts that satisfy every supplied predicate: equality
\* on the exact-match fields, people count >= min_people, safe hours <=
\* max_safe_hours; an unset filter restricts nothing and a boolean filter
\* set to false restricts to the posts whose flag is false.
C13_FilterAnd ==
    (Filtered /\ DOMAIN resp.form # {}) =>
        /\ Range(resp.data) =
             {p.id : p \in {q \in posts :
                               \A f \in DOMAIN resp.form : Satisfies(q, f, resp.form[f])}}
        /\ \A i, j \in 1..Len(resp.data) : i # j => resp.data[i] # resp.data[j]

\* district=Galle with need_power=false picked one post out of three
C13_Witness ==
    /\ Filtered
    /\ Cardinality(posts) = 3
    /\ DOMAIN resp.form = {"district", "need_power"}
    /\ resp.form.district = "Galle" /\ resp.form.need_power = FALSE
    /\ resp.data = <<1>>

\* C14: a filter request with all thirteen filters unset is rejected with a
\* caller-input error by the service before any database query is issued;
\* a request with at least one filter set, a boolean false or a numeric 0
\* included, is not rejected for that reason.
C14_EmptyFilterRejected ==
    resp.op = "filter" =>
        /\ DOMAIN resp.form = {} =>
              /\ resp.status = 400
              /\ resp.message = "At least one filter must be provided"
              /\ resp.db = ""
        /\ DOMAIN resp.form # {} =>
              /\ resp.status # 400
              /\ resp.db \in DbOutcomes

\* min_people=0 alone was accepted and answered
C14_Witness ==
    /\ Filtered
    /\ DOMAIN resp.form = {"min_people"}
    /\ resp.form.min_people = 0
    /\ resp.data = <<2, 1>>

-----------------------------------------------------------------------------
(* The phone rule on its own: one submission, valid but for one of its      *)
(* phones, in resp.form until it is handled                                 *)

MaxPad == 7                      \* characters of a sample phone that are not digits

\* a phone of d digits and s other characters: "+", the digits, then "-"
PhoneOf(d, s) ==
    [i \in 1..(d + s) |->
        IF s > 0 /\ i = 1 THEN "+"
        ELSE IF i <= d + (IF s > 0 THEN 1 ELSE 0) THEN "7"
        ELSE "-"]

PhoneSamples == {PhoneOf(d, s) : d \in 0..(PhoneMaxDigits + 2), s \in 0..MaxPad}

PhoneForms ==
    {[ValidPayload EXCEPT !.phone_number = ph] : ph \in PhoneSamples}
    \cup {[ValidPayload EXCEPT !.alt_phone_number = ph] : ph \in PhoneSamples \cup {NoneS}}

InitPhone ==
    /\ settings = FullSettings
    /\ posts = {}
    /\ images = {}
    /\ storage = {}
    /\ req = Idle
    /\ resp \in {[Outcome("none", 0, 0, "") EXCEPT !.form = form] : form \in PhoneForms}
    /\ ncreate = 0

NextPhone == \E nfiles \in 0..1 : resp.op = "none" /\ CreateRequest(resp.form, nfiles)

SpecPhone == InitPhone /\ [][NextPhone]_vars

DigitCount(s) == Cardinality({i \in DOMAIN s : s[i] \in Digits})

\* the submission was handled and passed validation
Validated == resp.op = "create" /\ resp.message # "Invalid rescue post data"

\* C16 as stated: a phone is accepted exactly when it has between 7 and 15
\* digit characters, whatever the length of the string submitted.
C16_DigitsOnly ==
    resp.op = "create" =>
        (Validated <=>
            /\ DigitCount(resp.form.phone_number) \in 7..15
            /\ \/ resp.form.alt_phone_number = NoneS
               \/ DigitCount(resp.form.alt_phone_number) \in 7..15)

\* the rule the code applies to one phone
PhoneAccepted(ph) == Len(ph) \in 7..20 /\ DigitCount(ph) \in 7..15

\* C16 amended: a phone is accepted exactly when the submitted string has
\* between 7 and 20 characters and between 7 and 15 of them are digits; the
\* accepted value is the string of its digits; a phone of 6 or fewer, or 16
\* or more, digits is rejected with an error naming its field.
C16_RawThenDigits ==
    resp.op = "create" =>
        LET ph == resp.form.phone_number
            alt == resp.form.alt_phone_number
        IN /\ Validated <=> (PhoneAccepted(ph) /\ (alt = NoneS \/ PhoneAccepted(alt)))
           /\ DigitCount(ph) \notin 7..15 => resp.errors = <<"phone_number">>
           /\ (alt # NoneS /\ DigitCount(alt) \notin 7..15)
                => resp.errors = <<"alt_phone_number">>
           /\ req.pc = "upload" =>
                 /\ Len(req.validated.phone_number) = DigitCount(ph)
                 /\ \A i \in DOMAIN req.validated.phone_number :
                       req.validated.phone_number[i] \in Digits
                 /\ alt # NoneS =>
                       /\ Len(req.validated.alt_phone_number) = DigitCount(alt)
                       /\ \A i \in DOMAIN req.validated.alt_phone_number :
                             req.validated.alt_phone_number[i] \in Digits

\* a phone of 20 characters, 15 of them digits, was accepted as its 15 digits
C16_Witness ==
    /\ req.pc = "upload"
    /\ Len(resp.form.phone_number) = 20
    /\ resp.form.phone_number[1] = "+"
    /\ Len(req.validated.phone_number) = 15

-----------------------------------------------------------------------------
(* Submissions with any number of offending fields: one submission, in      *)
(* resp.form until it is handled, then the rest of the create handler       *)

PriorityPadded == <<" ", "l", "o", "w", " ">>
PriorityUpper == <<"M", "E", "D", "I", "U", "M">>
PriorityTooShort == <<"h", "i">>

FormSamples ==
    [full_name : {NameOk, NameShort},
     phone_number : {PhoneOk, PhoneFewDigits, PhoneShort},
     alt_phone_number : {PhoneAlt, PhoneFewDigits},
     priority_level : {PriorityMixed, PriorityUpper, PriorityPadded,
                       PriorityUnknown, PriorityTooShort},
     number_of_peoples_to_rescue : {3, 0},
     safe_hours : {NoneInt, 2000},
     location_url : {UrlOk, UrlNoScheme}]

InitForm ==
    /\ settings = FullSettings
    /\ posts = {}
    /\ images = {}
    /\ storage = {}
    /\ req = Idle
    /\ resp \in {[Outcome("none", 0, 0, "") EXCEPT !.form = form] : form \in FormSamples}
    /\ ncreate = 0

NextForm ==
    \/ \E nfiles \in 0..1 : resp.op = "none" /\ CreateRequest(resp.form, nfiles)
    \/ \E upload \in Uploads, put_ok \in BOOLEAN : UploadFile(upload, put_ok)
    \/ \E outcome \in InsertOutcomes : InsertPost(outcome)
    \/ \E outcome \in InsertOutcomes : InsertImages(outcome)
    \/ \E result \in PostResults : NotifyFirst(result)
    \/ \E result \in PostResults : NotifyFallback(result)

SpecForm == InitForm /\ [][NextForm]_vars

\* the submission was handled and failed validation
Rejected == resp.op = "create" /\ resp.message = "Invalid rescue post data"

\* the fields of a submission that break their rule, bound or custom
ViolatedFields(form) ==
    {f \in Range(FieldOrder) : ValidateField(f, form[f]).kind # "ok"}

C18_PriorityEnumerated ==
    /\ \A p \in posts : p.priority_level \in AllowedPriority
    /\ (resp.op = "create" /\ resp.form # <<>>) =>
          IF Lower(resp.form.priority_level) \in AllowedPriority
          THEN Validated => /\ req.pc = "upload" =>
                                 req.validated.priority_level = Lower(resp.form.priority_level)
          ELSE Rejected /\ \E i \in DOMAIN resp.errors : resp.errors[i] = "priority_level"

-----------------------------------------------------------------------------
(* Properties of the create handler *)

\* the decimal digits of a number that is not negative, as a string
RECURSIVE DecimalOf(_)
DecimalOf(n) ==
    LET last == <<"0", "1", "2", "3", "4", "5", "6", "7", "8", "9">>[(n % 10) + 1] IN
    IF n < 10 THEN <<last>> ELSE Append(DecimalOf(n \div 10), last)

\* the value is the digit string, of 7 to 15 digits
StoredAsDigits(stored, digits) ==
    /\ DecimalOf(stored) = digits
    /\ Len(DecimalOf(stored)) \in 7..15

\* C17: every phone value written to the posts table by a create request is
\* the digit string obtained from the submitted phone and has between 7 and
\* 15 digits, for the primary phone and, when present, the alternative
\* phone, also when the submitted phone begins with zeros.
C17_StoredPhoneDigits ==
    [][\A p \in posts' \ posts :
          /\ StoredAsDigits(p.phone_number, req.validated.phone_number)
          /\ req.validated.alt_phone_number # NoneS =>
                StoredAsDigits(p.alt_phone_number, req.validated.alt_phone_number)]_vars

\* the steps of the create handler, each with the steps that may follow it
StepOrder ==
    {<<"idle", "upload">>, <<"upload", "upload">>, <<"upload", "insert_post">>,
     <<"insert_post", "insert_images">>, <<"insert_images", "notify">>,
     <<"notify", "fallback">>}

\* the calls to the chat API made so far for the request in hand or just answered
CallsOf(r, answer) == IF r.pc = "idle" THEN answer.calls ELSE r.calls

\* C19: within one create request the steps occur in the order validation,
\* image uploads (one file after the other, in input order), post-row
\* insert, image-row insert, notification, response; each starts only after
\* the one before it has succeeded, every image row is inserted after its
\* post row exists and carries its id, and the notification is attempted
\* only after both database writes and finishes before the response.
C19_StepOrder ==
    [][/\ req'.pc # req.pc =>
            \/ <<req.pc, req'.pc>> \in StepOrder
            \/ req'.pc = "idle" /\ resp'.op = "create" /\ resp'.status >= 400
            \/ req'.pc = "idle" /\ resp'.op = "create" /\ resp'.status = 200
                  /\ req.pc \in {"notify", "fallback"}
       /\ storage' # storage =>
            /\ req.pc = "upload" /\ req.validated # <<>>
            /\ \E o \in storage' \ storage :
                  /\ storage' = storage \cup {o}
                  /\ req'.image_urls = Append(req.image_urls, cdn_url(o.key))
       /\ PostIdsOf(posts') \ PostIdsOf(posts) # {} =>
            /\ req.pc = "insert_post"
            /\ req.nfiles >= 1 /\ Len(req.image_urls) = req.nfiles
            /\ posts' = posts \cup {req'.post_record}
       /\ images' \ images # {} =>
            /\ req.pc = "insert_images"
            /\ req.post_record.id \in PostIdsOf(posts)
            /\ images' \ images = Range(req'.image_records)
            /\ Len(req'.image_records) = Len(req.image_urls)
            /\ \A k \in 1..Len(req'.image_records) :
                  /\ req'.image_records[k].post_id = req.post_record.id
                  /\ req'.image_records[k].image_url = req.image_urls[k]
       /\ (resp'.op = "create" /\ CallsOf(req', resp') # req.calls) =>
            /\ req.pc \in {"notify", "fallback"}
            /\ req.post_record # <<>>
            /\ Len(req.image_records) = req.nfiles
       /\ (resp'.op = "create" /\ resp'.status = 200) =>
            /\ req.pc \in {"notify", "fallback"}
            /\ req'.pc = "idle"
            /\ resp'.post = req.post_record /\ resp'.images = req.image_records
      ]_vars

\* a request of two files was answered after its fallback message
C19_Witness ==
    /\ resp.op = "create" /\ resp.status = 200
    /\ Len(resp.calls) = 2
    /\ Len(resp.images) = 2
    /\ resp.post \in posts

\* the objects a request has written
ObjectsOf(n) == {o \in storage : o.request = n}

\* the request in hand ends here with a server error and leaves nothing in
\* the database, sends nothing, and leaves storage as it is
EndsWithOrphans ==
    /\ resp'.status = 500
    /\ req' = Idle
    /\ storage' = storage
    /\ Cardinality(ObjectsOf(req.n)) = Len(req.image_urls)
    /\ posts' = posts /\ images' = images
    /\ req.n \notin PostIdsOf(posts')
    /\ \A i \in images' : i.post_id # req.n
    /\ req.calls = <<>> /\ resp'.calls = <<>>

\* C20: when all files of a create request are in storage and the post-row
\* insert fails, the request ends with a server error (500), the objects
\* stay in storage, no post row and no image row exists for the request and
\* no notification is sent; the same holds for the objects already written
\* when a later file's storage write fails.
C20_NoRollback ==
    [][/\ (req.pc = "insert_post" /\ resp'.op = "create" /\ req'.pc # "insert_images") =>
            /\ Len(req.image_urls) = req.nfiles
            /\ resp'.message = "Failed to save rescue post"
            /\ EndsWithOrphans
       /\ (req.pc = "upload" /\ resp'.op = "create"
             /\ resp'.message = "Failed to upload image") =>
            EndsWithOrphans
      ]_vars

\* two files are in storage and the post row could not be inserted
C20_Witness ==
    /\ resp.op = "create" /\ resp.status = 500
    /\ resp.message = "Failed to save rescue post"
    /\ Cardinality(ObjectsOf(resp.n)) = 2
    /\ posts = {} /\ images = {}

\* the calls to the object store and to the database made for the request
\* in hand or just answered
AttemptsOf(r, answer) == IF r.pc = "idle" THEN answer.attempts ELSE r.attempts

\* no call appears twice: one write per file of the batch, one statement of
\* each kind
OncePerCall(log, nfiles) ==
    /\ \A i, j \in 1..Len(log) : log[i] = log[j] => i = j
    /\ \A i \in 1..Len(log) :
          IF log[i].call = "put_object" THEN log[i].file \in 1..nfiles
          ELSE log[i].call \in {"insert_rescue_post", "insert_images"} /\ log[i].file = 0

\* at most two calls to the chat API, the second one being the plain-text
\* fallback to a first delivery that was answered with an error status
OneFallback(chat) ==
    /\ Len(chat) <= 2
    /\ Len(chat) = 2 =>
          /\ chat[1].result # PostRaises /\ chat[1].result >= 400
          /\ chat[2].method = "sendMessage"
          /\ chat[2].json.disable_web_page_preview = FALSE
          /\ IsFallbackOf(chat[2], chat)

\* C21: no external call is retried: within one request each storage write
\* is attempted at most once per file, each database statement at most
\* once and the first notification delivery at most once; a failed storage
\* or database call ends the request with an error at its first failure,
\* and the only second attempt anywhere is the notifier's single plain-text
\* fallback.
C21_NoRetry ==
    [][/\ (req.pc # "idle" /\ resp'.op = "create") =>
            LET log == AttemptsOf(req', resp')
                chat == CallsOf(req', resp')
                called == Len(log) - Len(req.attempts)
                failed == /\ called = 1
                          /\ storage' = storage
                          /\ PostIdsOf(posts') = PostIdsOf(posts)
                          /\ images' = images
            IN /\ called \in {0, 1}
               /\ SubSeq(log, 1, Len(req.attempts)) = req.attempts
               /\ Len(chat) - Len(req.calls) \in {0, 1}
               /\ called = 1 => chat = <<>>
               /\ OncePerCall(log, req.nfiles)
               /\ OneFallback(chat)
               /\ failed => /\ req' = Idle
                            /\ resp'.status = 500
                            /\ resp'.calls = <<>>
       /\ req.pc = "idle" =>
            /\ storage' = storage
            /\ PostIdsOf(posts') \subseteq PostIdsOf(posts)
            /\ images' \subseteq images
            /\ req'.pc # "idle" =>
                  /\ req'.n = ncreate' /\ ncreate' = ncreate + 1
                  /\ req'.attempts = <<>> /\ req'.calls = <<>>
                  /\ ObjectsOf(req'.n) = {}
                  /\ req'.n \notin PostIdsOf(posts)
      ]_vars

\* the write of the second file failed after the first file was written:
\* two storage calls were made, and the request ended with a server error
C21_Witness ==
    /\ resp.op = "create" /\ resp.status = 500
    /\ resp.attempts = <<Attempt("put_object", 1), Attempt("put_object", 2)>>
    /\ Cardinality(ObjectsOf(resp.n)) = 1
    /\ req = Idle

-----------------------------------------------------------------------------
(* The create handler and the read routes over a database that holds posts  *)
(* of earlier requests, each with its image row and its object              *)

\* GET /posts: list_rescue_posts_with_images, every post with its images
list_rescue_posts(outcome) ==
    /\ LET r == fetch_rescue_posts_with_images(outcome, "last")
       IN resp' = [Outcome("list", 0, r.status, r.message) EXCEPT
                     !.db = outcome,
                     !.fetched = [k \in 1..Len(r.data) |-> Cardinality(r.data[k].images)],
                     !.data = ids_of(r.data)]
    /\ UNCHANGED <<settings, posts, images, storage, req, ncreate>>

MaxStored == 4                   \* posts stored before the first request

\* the post of an earlier request: more people to rescue than the sample
\* submission has, every second one verified by an admin
StoredPost(k) ==
    [new_post_row(post_payload(validate_with_app_error(ValidPayload).validated),
                  10 + k, 0 - k)
        EXCEPT !.number_of_peoples_to_rescue = ValidPayload.number_of_peoples_to_rescue + k,
               !.is_verified = (k % 2 = 0)]

StoredKey(k) == [prefix |-> FullSettings.digitalocean_upload_prefix, uuid |-> k, ext |-> ExtPng]

StoredUrl(k) ==
    [host |-> FullSettings.digitalocean_cdn_endpoint, path |-> "projectrakawarananew",
     key |-> StoredKey(k)]

StoredImage(k) == [image_url |-> StoredUrl(k), post_id |-> 10 + k, id |-> <<10 + k, 1>>]

StoredObject(k) ==
    [bucket |-> FullSettings.digitalocean_bucket, key |-> StoredKey(k),
     size |-> 1, content_type |-> ImagePng, acl |-> "public-read", request |-> 10 + k]

\* the filters of the sample requests to GET /posts/filter
OrphanFilters == {[is_verified |-> b] : b \in BOOLEAN}

InitOrphan ==
    /\ settings = FullSettings
    /\ \E S \in SUBSET (1..MaxStored) :
          /\ posts = {StoredPost(k) : k \in S}
          /\ images = {StoredImage(k) : k \in S}
          /\ storage = {StoredObject(k) : k \in S}
    /\ req = Idle
    /\ resp = Outcome("none", 0, 0, "")
    /\ ncreate = 0

NextOrphan ==
    \/ \E nfiles \in 1..MaxFiles : CreateRequest(ValidPayload, nfiles)
    \/ \E put_ok \in BOOLEAN :
         UploadFile([filename |-> FilePng, content_type |-> ImagePng, size |-> 1], put_ok)
    \/ \E outcome \in InsertOutcomes : InsertPost(outcome)
    \/ \E outcome \in InsertOutcomes : InsertImages(outcome)
    \/ \E result \in PostResults : NotifyFirst(result)
    \/ \E result \in PostResults : NotifyFallback(result)
    \/ \E outcome \in DbOutcomes : list_rescue_posts(outcome)
    \/ \E outcome \in DbOutcomes : list_critical_posts(NoneInt, outcome, "last")
    \/ \E filters \in OrphanFilters, outcome \in DbOutcomes :
         filter_rescue_posts(filters, outcome)

SpecOrphan == InitOrphan /\ [][NextOrphan]_vars

\* the stored posts that have no image row and are not waiting for theirs:
\* the posts whose image-row insert failed
Orphans(rows, imgs, r) ==
    {p \in rows : /\ \A i \in imgs : i.post_id # p.id
                  /\ ~(r.pc = "insert_images" /\ r.post_record.id = p.id)}

\* the image-row insert of the request in hand fails in this step: the
\* request ends with a server error, the post row stays without image rows
\* and no notification is sent
ImageInsertFails ==
    (req.pc = "insert_images" /\ resp'.op = "create" /\ req'.pc # "notify") =>
        /\ resp'.status = 500 /\ resp'.message = "Failed to save images"
        /\ req' = Idle
        /\ posts' = posts /\ images' = images
        /\ req.post_record \in posts'
        /\ req.post_record \in Orphans(posts', images', req')
        /\ req.calls = <<>> /\ resp'.calls = <<>>

\* the stored posts ranked ahead of p by (score, tie-breaker)
AheadOf(p, rows) ==
    {q \in rows \ {p} : KeyGeq(_priority_score(q), _priority_score(p))}

\* what the list and the filter routes answer about the posts without
\* image rows: the list returns each of them, with no images, and the
\* filter returns each of them that meets the filters of the request
ListedAndFiltered ==
    \A p \in Orphans(posts', images', req') :
        /\ (resp'.op = "list" /\ resp'.status = 200) =>
              \E k \in 1..Len(resp'.data) :
                  resp'.data[k] = p.id /\ resp'.fetched[k] = 0
        /\ (resp'.op = "filter" /\ resp'.status = 200) =>
              (p.id \in Range(resp'.data)
                 <=> \A f \in DOMAIN resp'.form : Satisfies(p, f, resp'.form[f]))

\* C22 as stated: after a failed image-row insert the post row stays, no
\* notification is sent, and every later list, matching filter and
\* top-critical query returns the post.
C22_OrphanAlwaysReturned ==
    [][/\ ImageInsertFails
       /\ ListedAndFiltered
       /\ \A p \in Orphans(posts', images', req') :
            (resp'.op = "top_critical" /\ resp'.status = 200) =>
                p.id \in Range(resp'.data)
      ]_vars

\* C22 amended: if the post-row insert of a create request succeeds and the
\* following image-row insert fails, the request ends with a server error
\* (500), the post row is not removed and no notification is sent for it;
\* the stored post with no image rows is returned by later list queries,
\* by the filter queries whose filters it meets, and by the top-critical
\* query exactly when fewer than three stored posts rank ahead of it.
C22_OrphanPost ==
    [][/\ ImageInsertFails
       /\ ListedAndFiltered
       /\ \A p \in Orphans(posts', images', req') :
            (resp'.op = "top_critical" /\ resp'.status = 200) =>
                (p.id \in Range(resp'.data)
                   <=> Cardinality(AheadOf(p, posts')) < DefaultLimit)
      ]_vars

\* the post of the failed request is stored with no image rows next to two
\* older posts, and the top-critical query returned it in third place
C22_Witness ==
    /\ resp.op = "top_critical" /\ resp.status = 200
    /\ Cardinality(posts) = 3
    /\ \E p \in Orphans(posts, images, req) : resp.data[3] = p.id
    /\ Cardinality(ObjectsOf(1)) = 2

====
